---- MODULE Spec2Model ----
(***************************************************************************)
(* The game slice of Cosmic Strikes (frontend/src/features/game.ts) and    *)
(* the difficulty tables it reads (features/difficultyV2), as a state      *)
(* machine: one action per reducer, plus the clock the reducers read with  *)
(* Date.now().                                                             *)
(*                                                                         *)
(* Positions and velocities are fixed-point numbers in units of 0.001      *)
(* (x = 1.5 is 1500), squared distances in units of 0.000001, times in     *)
(* milliseconds.  Alien speeds, which the source computes in floating      *)
(* point, are computed exactly in units of 0.000001 and then rounded down  *)
(* to the position grid.                                                   *)
(***************************************************************************)
EXTENDS Integers, Sequences, FiniteSets, TLC

VARIABLES
    state,          \* the GameState record of game.ts
    now,            \* what Date.now() returns
    idCounter,      \* module-level idCounter of game.ts (generateId)
    ticks,          \* history: tick actions dispatched so far
    perfectAwards,  \* history: PERFECT bonuses added since the last reset
    escapeLog,      \* history: times of the escapes since the last
                    \* miss-window combo reset (or reset of the match)
    pausedMs,       \* history: milliseconds the clock advanced while status
                    \* was paused, since the last tick (or reset)
    loop,           \* the game loop of ProfilePage.tsx: the values its effect
                    \* captured and the locals of its frame callback
    modal           \* GameOverModal.tsx: the profile.highScore and
                    \* isAuthenticated it reads, its local state, the
                    \* dependencies its submit effect last ran with, the
                    \* requests in flight and (history) the submissions
                    \* made for the current game

vars == <<state, now, idCounter, ticks, perfectAwards, escapeLog, pausedMs,
          loop, modal>>

-----------------------------------------------------------------------------
(* Bounds of the model *)

MaxId == 2          \* ids generated in one behaviour (bullets + aliens)
MaxTicks == 2       \* ticks dispatched in one behaviour
MaxClockSteps == 2  \* times the clock advances in one behaviour
ClockStepMs == 5000 \* milliseconds the clock advances at a time
MaxWaves == 1       \* nextWave dispatches in one behaviour
MaxScoreGrants == 1 \* incrementScore dispatches in one behaviour
FrameMs == 16       \* milliseconds between two frames of the game loop
MaxShotsCounted == 420 \* shotsFired is counted up to here in SpecLoop
MaxMissIds == 3     \* ids generated in one behaviour of SpecMisses, SpecCollide
MaxComboIds == 201  \* ids generated in one behaviour of SpecCombo
MaxComboTicks == 101 \* ticks dispatched in one behaviour of SpecCombo
MaxIdleIds == 4     \* ids generated in one behaviour of SpecIdle, SpecExpiry
MaxHitIds == 4      \* ids generated in one behaviour of SpecHits
MaxDecayTicks == 128 \* ticks dispatched in one behaviour of SpecDecay
MaxEscapeIds == 3   \* ids generated in one behaviour of SpecEscape
MaxFlightTicks == 45 \* ticks dispatched in one behaviour of SpecFlight, SpecBossFlight
MaxOverIds == 5     \* ids generated in one behaviour of SpecOver
MaxStaleWaves == 6  \* wavesCompleted up to which SpecStale runs frames
MaxSubmitIds == 5   \* ids generated in one behaviour of SpecSubmit
MaxIdleSteps == 2   \* times the clock advances in one behaviour of SpecIdle
IdleStepMs == 7500  \* milliseconds the clock advances at a time in SpecIdle
MaxExpirySteps == 3 \* times the clock advances in one behaviour of SpecExpiry
ExpiryStepMs == 4000 \* milliseconds the clock advances at a time in SpecExpiry

-----------------------------------------------------------------------------
(* Program constants *)

BASE_SCORE_PER_LEVEL == 500
PERFECT_COMBO_BONUS == 10000
HIT_RADIUS_NORMAL == 62500      \* 0.0625
HIT_RADIUS_BOSS == 160000       \* 0.16
BULLET_LIMIT == 100
ALIEN_LIMIT == 80
IDLE_TIMEOUT == 15000
MISS_WINDOW == 10000
MISS_THRESHOLD == 3
CANNON_HIT_RADIUS == 500        \* 0.5

AlienTypes == {"red", "green", "blue", "yellow", "purple", "cyan"}

\* alienRewards: points and power-up of each alien type
alienRewards ==
    [t \in AlienTypes |->
        CASE t = "red"    -> [points |-> 100, powerUp |-> "fireRate"]
          [] t = "green"  -> [points |-> 150, powerUp |-> "shield"]
          [] t = "blue"   -> [points |-> 200, powerUp |-> "slowMotion"]
          [] t = "yellow" -> [points |-> 250, powerUp |-> "scoreMultiplier"]
          [] t = "purple" -> [points |-> 300, powerUp |-> "doubleBullets"]
          [] t = "cyan"   -> [points |-> 350, powerUp |-> "spreadShot"]]

-----------------------------------------------------------------------------
(* Helpers *)

Min(S) == CHOOSE x \in S : \A y \in S : x <= y
MaxOf(a, b) == IF a >= b THEN a ELSE b
MinOf(a, b) == IF a <= b THEN a ELSE b

\* Op applied to the value of v, which is evaluated once however often Op
\* reads its argument
With(v, Op(_)) == CHOOSE r \in {Op(x) : x \in {v}} : TRUE

clamp(v, lo, hi) == IF v < lo THEN lo ELSE IF v > hi THEN hi ELSE v

-----------------------------------------------------------------------------
(* difficultyV2: level progression *)

\* floor(500 * level * level^0.85) for level = 1..100 (entry 1 is unused:
\* getRequiredScoreForLevel returns 0 for level <= 1)
RequiredScoreTable ==
    << 0, 1802, 3816, 6498, 9818, 13757, 18297, 23425, 29128, 35397,
       42222, 49596, 57512, 65963, 74944, 84448, 94471, 105008, 116055, 127607,
       139661, 152213, 165259, 178797, 192823, 207334, 222327, 237800, 253750, 270174,
       287070, 304437, 322270, 340569, 359331, 378555, 398238, 418378, 438974, 460024,
       481526, 503478, 525879, 548728, 572022, 595760, 619941, 644564, 669626, 695127,
       721065, 747439, 774248, 801490, 829165, 857270, 885805, 914769, 944161, 973979,
       1004223, 1034891, 1065982, 1097496, 1129431, 1161786, 1194561, 1227754, 1261365, 1295392,
       1329835, 1364693, 1399965, 1435650, 1471747, 1508256, 1545175, 1582504, 1620242, 1658389,
       1696943, 1735903, 1775270, 1815042, 1855218, 1895798, 1936781, 1978166, 2019954, 2062142,
       2104730, 2147719, 2191106, 2234891, 2279075, 2323655, 2368632, 2414005, 2459773, 2505936 >>

getRequiredScoreForLevel(level) ==
    IF level <= 1 THEN 0 ELSE RequiredScoreTable[level]

\* the scan with <= for < in its test (a fault the exactness of the level
\* at a required score detects)
RECURSIVE levelScanInclusive(_, _)
levelScanInclusive(score, level) ==
    IF level > 100 THEN 100
    ELSE IF score <= getRequiredScoreForLevel(level) THEN MaxOf(1, level - 1)
    ELSE levelScanInclusive(score, level + 1)

\* the scan of calculateLevelFromScore from a level on
RECURSIVE levelScan(_, _)
levelScan(score, level) ==
    IF level > 100 THEN 100
    ELSE IF score < getRequiredScoreForLevel(level) THEN MaxOf(1, level - 1)
    ELSE levelScan(score, level + 1)

calculateLevelFromScore(score) == levelScan(score, 1)

isBossLevel(level) == level > 0 /\ level % 10 = 0 /\ level <= 100

getLevelWithinBracket(level) ==
    IF level <= 10 THEN level - 1
    ELSE IF level <= 25 THEN level - 11
    ELSE IF level <= 40 THEN level - 26
    ELSE IF level <= 60 THEN level - 41
    ELSE IF level <= 80 THEN level - 61
    ELSE level - 81

\* getWaveConfig(level, wave).alienSpeed, in units of 0.000001
waveAlienSpeed(level, wave) ==
    LET baseSpeed ==
            IF level <= 10 THEN 30000 + (wave - 1) * 7500
            ELSE IF level <= 25 THEN 60000 + (wave - 1) * 7500
            ELSE IF level <= 40 THEN 90000 + (wave - 1) * 5000
            ELSE IF level <= 60 THEN 110000 + (wave - 1) * 5000
            ELSE IF level <= 80 THEN 130000 + (wave - 1) * 5000
            ELSE 150000 + (wave - 1) * 7500
        scalePercent == 100 + getLevelWithinBracket(level) * 2
    IN  (baseSpeed * scalePercent) \div 100

\* getWaveConfig(level, wave).enemiesRequired = floor((5 + level * 0.3) * wave).
\* The source's floating-point product falls just below the exact integer
\* at wave 5 of levels 18, 46, 62 and 92, where the floor is one less.
enemiesRequired(level, wave) ==
    LET exact == ((50 + level * 3) * wave) \div 10
    IN  IF wave = 5 /\ level \in {18, 46, 62, 92} THEN exact - 1 ELSE exact

\* getWaveConfig(level, wave).enemiesPerSecond, in thousandths and before
\* the bracket scaling
waveBaseEPS(level, wave) ==
    IF level <= 10 THEN 500 + (wave - 1) * 250
    ELSE IF level <= 25 THEN 1200 + (wave - 1) * 200
    ELSE IF level <= 40 THEN 2000 + (wave - 1) * 250
    ELSE IF level <= 60 THEN 3000 + (wave - 1) * 375
    ELSE IF level <= 80 THEN 4500 + (wave - 1) * 375
    ELSE 6000 + (wave - 1) * 500

\* getWaveConfig(level, wave).alienHP
waveAlienHP(level, wave) ==
    IF level <= 10 THEN 1
    ELSE IF level <= 25 THEN (IF wave >= 3 THEN 2 ELSE 1)
    ELSE IF level <= 40 THEN 2
    ELSE IF level <= 60 THEN (IF wave >= 3 THEN 3 ELSE 2)
    ELSE IF level <= 80 THEN (IF wave >= 4 THEN 4 ELSE 3)
    ELSE (IF wave >= 2 THEN 4 ELSE 3)

\* getSpawnInterval = max(350, floor(1000 / enemiesPerSecond)), in ms
getSpawnInterval(level, wave) ==
    LET scalePercent == 100 + getLevelWithinBracket(level) * 2
    IN  MaxOf(350, 100000000 \div (waveBaseEPS(level, wave) * scalePercent))

\* getAlienHP(level, wave).hp
getAlienHP(level, wave) == waveAlienHP(level, wave)

\* getAlienSpeed, rounded down to the position grid
getAlienSpeed(level, wave, hasSlowMotion) ==
    LET micro == IF hasSlowMotion THEN waveAlienSpeed(level, wave) \div 2
                 ELSE waveAlienSpeed(level, wave)
    IN  micro \div 1000

getBossHP(level) == 15 + (level \div 10) * 25

\* getBossConfig(level): null off the boss levels, else the boss's hp
getBossConfig(level) ==
    IF ~isBossLevel(level) THEN "null" ELSE [hp |-> getBossHP(level)]

\* getComboMultiplier with PERFECT from 51 on (a fault the tier table
\* detects at the boundary 49/50)
getComboMultiplierLate(combo) ==
    IF combo >= 51 THEN [multiplier |-> 5, tier |-> "PERFECT"]
    ELSE IF combo >= 31 THEN [multiplier |-> 4, tier |-> "INCREDIBLE"]
    ELSE IF combo >= 16 THEN [multiplier |-> 3, tier |-> "AWESOME"]
    ELSE IF combo >= 6 THEN [multiplier |-> 2, tier |-> "GREAT"]
    ELSE [multiplier |-> 1, tier |-> ""]

getComboMultiplier(combo) ==
    IF combo >= 50 THEN [multiplier |-> 5, tier |-> "PERFECT"]
    ELSE IF combo >= 31 THEN [multiplier |-> 4, tier |-> "INCREDIBLE"]
    ELSE IF combo >= 16 THEN [multiplier |-> 3, tier |-> "AWESOME"]
    ELSE IF combo >= 6 THEN [multiplier |-> 2, tier |-> "GREAT"]
    ELSE [multiplier |-> 1, tier |-> ""]

\* calculateKillScore(alienHP, wave, combo, isBoss, difficultyMode); the
\* mode multiplier 1 / 1.5 / 2 is carried doubled and halved at the floor
calculateKillScore(alienHP, wave, combo, isBoss, difficultyMode) ==
    LET basePoints == 500 * alienHP * wave
        multiplier == getComboMultiplier(combo).multiplier
        modeMultiplierTimes2 == IF difficultyMode = "mastery" THEN 4
                                ELSE IF difficultyMode = "elite" THEN 3 ELSE 2
        bossMultiplier == IF isBoss THEN 5 ELSE 1
    IN  (basePoints * multiplier * modeMultiplierTimes2 * bossMultiplier) \div 2

getWaveClearBonus(wave, level) == 5000 * wave + level * 100

\* a power-up that lasts no time (a fault the expiry after the tick's time
\* detects)
getPowerUpDurationNone(level) == 0

getPowerUpDuration(level) ==
    IF level <= 25 THEN 8000
    ELSE IF level <= 50 THEN 6000
    ELSE IF level <= 75 THEN 4000
    ELSE 3000

\* getPowerUpDropChance, in percent
getPowerUpDropChance(level) ==
    IF level < 50 THEN 100
    ELSE IF level < 70 THEN 85
    ELSE IF level < 90 THEN 70
    ELSE 60

\* the score pressure with combo decay at every level (a fault the steady
\* combo below level 50 detects)
getScorePressureEarly(level) ==
    IF level < 50 THEN [comboDecay |-> 1, missedPenalty |-> 0]
    ELSE IF level < 70 THEN [comboDecay |-> 1, missedPenalty |-> 100]
    ELSE IF level < 90 THEN [comboDecay |-> 2, missedPenalty |-> 250]
    ELSE [comboDecay |-> 3, missedPenalty |-> 500]

\* getScorePressure; comboDecay in tenths
getScorePressure(level) ==
    IF level < 50 THEN [comboDecay |-> 0, missedPenalty |-> 0]
    ELSE IF level < 70 THEN [comboDecay |-> 1, missedPenalty |-> 100]
    ELSE IF level < 90 THEN [comboDecay |-> 2, missedPenalty |-> 250]
    ELSE [comboDecay |-> 3, missedPenalty |-> 500]

-----------------------------------------------------------------------------
(* game.ts: the state *)

initialState ==
    [ playerX |-> 0, playerY |-> -2500,
      bullets |-> << >>, aliens |-> << >>,
      score |-> 0, lives |-> 3, level |-> 1, previousLevel |-> 1,
      wave |-> 1, waveKills |-> 0, waveEnemiesSpawned |-> 0,
      status |-> "idle", difficultyMode |-> "normal",
      activePowerUps |-> << >>, scoreMultiplier |-> 1,
      combo |-> 0, maxCombo |-> 0, comboTimer |-> 0, comboTier |-> "",
      bossActive |-> FALSE, bossHP |-> 0, bossMaxHP |-> 0,
      totalKills |-> 0, missedAliens |-> 0, escapeStreak |-> 0,
      victoryType |-> "null", victoryTitle |-> "",
      lastShotTime |-> 0, missesInWindow |-> 0, missWindowStart |-> 0,
      shotsFired |-> 0, shotsHit |-> 0,
      powerUpsCollected |-> 0, wavesCompleted |-> 0 ]

hasPowerUp(s, type) == \E i \in 1..Len(s.activePowerUps) : s.activePowerUps[i].type = type

-----------------------------------------------------------------------------
(* game.ts: the reducers, as functions of the state *)

\* move that leaves the position alone when the target is out of range (a
\* fault the clamping of every intent detects)
moveRejecting(s, dx, dy, sensitivity) ==
    LET x == s.playerX + dx * sensitivity
        y == s.playerY + dy * sensitivity
    IN  IF x < -3000 \/ x > 3000 \/ y < -3000 \/ y > 3000 THEN s
        ELSE [s EXCEPT !.playerX = x, !.playerY = y]

\* move(state, {dx, dy, sensitivity})
move(s, dx, dy, sensitivity) ==
    [s EXCEPT !.playerX = clamp(s.playerX + dx * sensitivity, -3000, 3000),
              !.playerY = clamp(s.playerY + dy * sensitivity, -3000, 3000)]

\* bullets.slice(-BULLET_LIMIT + 3): the last BULLET_LIMIT - 3 bullets
sliceOldest(bullets) ==
    LET keep == BULLET_LIMIT - 3
        n == Len(bullets)
    IN  IF n <= keep THEN bullets ELSE SubSeq(bullets, n - keep + 1, n)

\* fire that leaves lastShotTime alone (a fault the restart of the idle
\* timer by every shot detects)
fireKeepingShotTime(s, t, id) ==
    LET kept == IF Len(s.bullets) >= BULLET_LIMIT THEN sliceOldest(s.bullets)
                ELSE s.bullets
        y == s.playerY + 500
        B(suffix, x, vx) == [id |-> <<id, suffix>>, x |-> x, y |-> y, vx |-> vx, vy |-> 150]
        added ==
            IF hasPowerUp(s, "spreadShot") THEN
                << B("-left", s.playerX - 200, -50), B("-center", s.playerX, 0),
                   B("-right", s.playerX + 200, 50) >>
            ELSE IF hasPowerUp(s, "doubleBullets") THEN
                << B("-left", s.playerX - 100, 0), B("-right", s.playerX + 100, 0) >>
            ELSE << B("", s.playerX, 0) >>
    IN  [s EXCEPT !.bullets = kept \o added,
                  !.shotsFired = @ + Len(added)]

\* fire(state); t is Date.now(), id the number generateId() draws
fire(s, t, id) ==
    LET kept == IF Len(s.bullets) >= BULLET_LIMIT THEN sliceOldest(s.bullets)
                ELSE s.bullets
        hasSpreadShot == hasPowerUp(s, "spreadShot")
        hasDoubleBullets == hasPowerUp(s, "doubleBullets")
        y == s.playerY + 500
        B(suffix, x, vx) == [id |-> <<id, suffix>>, x |-> x, y |-> y, vx |-> vx, vy |-> 150]
        added ==
            IF hasSpreadShot THEN
                << B("-left", s.playerX - 200, -50), B("-center", s.playerX, 0),
                   B("-right", s.playerX + 200, 50) >>
            ELSE IF hasDoubleBullets THEN
                << B("-left", s.playerX - 100, 0), B("-right", s.playerX + 100, 0) >>
            ELSE << B("", s.playerX, 0) >>
    IN  [s EXCEPT !.lastShotTime = t,
                  !.bullets = kept \o added,
                  !.shotsFired = @ + Len(added)]

\* spawnAlien with its limit test off by one (a fault the bound on the
\* aliens that are not bosses detects)
spawnAlienPastLimit(s, p, id) ==
    IF Len(s.aliens) > ALIEN_LIMIT /\ ~p.isBoss THEN s
    ELSE [s EXCEPT !.aliens = Append(@, [id |-> <<"e", id>>, x |-> p.x, y |-> p.y,
                                         type |-> p.type, hp |-> p.hp, maxHp |-> p.hp,
                                         isBoss |-> p.isBoss, vx |-> p.vx]),
                   !.bossActive = IF p.isBoss THEN TRUE ELSE @]

\* spawnAlien(state, {x, y, type, hp, isBoss, vx})
spawnAlien(s, p, id) ==
    IF Len(s.aliens) >= ALIEN_LIMIT /\ ~p.isBoss THEN s
    ELSE [s EXCEPT !.aliens = Append(@, [id |-> <<"e", id>>, x |-> p.x, y |-> p.y,
                                         type |-> p.type, hp |-> p.hp, maxHp |-> p.hp,
                                         isBoss |-> p.isBoss, vx |-> p.vx]),
                   !.bossActive = IF p.isBoss THEN TRUE ELSE @]

\* spawnBoss(state, {hp, type})
spawnBoss(s, hp, type, id) ==
    [s EXCEPT !.aliens = Append(@, [id |-> <<"boss-e", id>>, x |-> 0, y |-> 4500,
                                    type |-> type, hp |-> hp, maxHp |-> hp,
                                    isBoss |-> TRUE, vx |-> 20]),
              !.bossActive = TRUE, !.bossHP = hp, !.bossMaxHP = hp,
              !.status = "boss"]

\* updateBossHP(state, hp)
updateBossHP(s, hp) ==
    [s EXCEPT !.bossHP = hp, !.bossActive = IF hp <= 0 THEN FALSE ELSE @]

\* reset that keeps the best combo of the match before (a fault the return
\* of every field to its initial value detects)
resetKeepingMaxCombo(s, t) ==
    [initialState EXCEPT !.lastShotTime = t, !.missWindowStart = t,
                         !.maxCombo = s.maxCombo]

\* reset(state): Object.assign(state, initialState), then the timestamps
reset(s, t) ==
    [initialState EXCEPT !.lastShotTime = t, !.missWindowStart = t]

setGameStatus(s, status) == [s EXCEPT !.status = status]

setDifficultyMode(s, mode) == [s EXCEPT !.difficultyMode = mode]

continueAfterVictory(s) ==
    [s EXCEPT !.status = "playing", !.victoryType = "null", !.victoryTitle = ""]

\* nextWave without the return to wave 1 (a fault the range of wave
\* detects)
nextWaveNoWrap(s) ==
    LET currentWave == s.wave
        s1 == [s EXCEPT !.score = @ + getWaveClearBonus(currentWave, s.level),
                        !.wavesCompleted = @ + 1]
        s2 == IF currentWave >= 5 /\ isBossLevel(s1.level)
              THEN [s1 EXCEPT !.status = "boss"]
              ELSE [s1 EXCEPT !.wave = currentWave + 1]
    IN  [s2 EXCEPT !.waveKills = 0, !.waveEnemiesSpawned = 0]

\* nextWave(state)
nextWave(s) ==
    LET currentWave == s.wave
        s1 == [s EXCEPT !.score = @ + getWaveClearBonus(currentWave, s.level),
                        !.wavesCompleted = @ + 1]
        s2 == IF currentWave >= 5
              THEN IF isBossLevel(s1.level) THEN [s1 EXCEPT !.status = "boss"]
                   ELSE [s1 EXCEPT !.wave = 1]
              ELSE [s1 EXCEPT !.wave = currentWave + 1]
    IN  [s2 EXCEPT !.waveKills = 0, !.waveEnemiesSpawned = 0]

startWave(s) == [s EXCEPT !.status = "playing"]

startBoss(s) == [s EXCEPT !.status = "boss", !.aliens = << >>]

incrementWaveSpawns(s) == [s EXCEPT !.waveEnemiesSpawned = @ + 1]

incrementScore(s, n) == [s EXCEPT !.score = @ + n]

setVictory(s) == [s EXCEPT !.status = "victory"]

-----------------------------------------------------------------------------
(* game.ts: tick.  The tick works on a frame: the state being mutated, the *)
(* tick's locals (destroyedAliens, bulletsToRemove) and the two history    *)
(* observations (PERFECT bonuses added, escape times not yet answered by a *)
(* miss-window reset).                                                     *)

\* Values of Math.random(), in percent
RandomDraws == {0, 90}

frameOf(s, log) ==
    [st |-> s, destroyed |-> << >>, removed |-> {}, awards |-> 0, log |-> log]

\* level calculation, idle detection, miss window, combo decay, power-up
\* expiry and the score multiplier (the tick up to the bullet update)
tickTimers(s, currentTime) ==
    With([s EXCEPT !.previousLevel = s.level,
                   !.level = calculateLevelFromScore(s.score)], LAMBDA s1 :
    LET comboInfo == getComboMultiplier(s1.combo)
        s2 == [s1 EXCEPT !.comboTier = comboInfo.tier]
        s3 == IF s2.combo > 0 /\ currentTime - s2.lastShotTime >= IDLE_TIMEOUT
              THEN [s2 EXCEPT !.combo = 0, !.comboTimer = 0]
              ELSE s2
        s4 == IF currentTime - s3.missWindowStart >= MISS_WINDOW
              THEN [s3 EXCEPT !.missesInWindow = 0, !.missWindowStart = currentTime]
              ELSE s3
        pressure == getScorePressure(s4.level)
        s5 == IF s4.combo > 0 /\ pressure.comboDecay > 0
              THEN IF s4.comboTimer - 16 <= 0
                   THEN [s4 EXCEPT !.combo = MaxOf(0, s4.combo - 1), !.comboTimer = 2000]
                   ELSE [s4 EXCEPT !.comboTimer = @ - 16]
              ELSE s4
        s6 == [s5 EXCEPT !.activePowerUps =
                            SelectSeq(@, LAMBDA p : ~(p.expiresAt <= currentTime))]
        powerUpMultiplier == IF hasPowerUp(s6, "scoreMultiplier") THEN 2 ELSE 1
    IN  [s6 EXCEPT !.scoreMultiplier = comboInfo.multiplier * powerUpMultiplier])

\* bullets advance and none leaves (a fault the bullets' stay below y = 4.5
\* detects)
updateBulletsKeepingAll(bullets) ==
    [i \in 1..Len(bullets) |->
        [bullets[i] EXCEPT !.x = @ + bullets[i].vx, !.y = @ + bullets[i].vy]]

\* bullets advance; those with y >= 4.5 leave
updateBullets(bullets) ==
    LET moved == [i \in 1..Len(bullets) |->
                     [bullets[i] EXCEPT !.x = @ + bullets[i].vx, !.y = @ + bullets[i].vy]]
    IN  SelectSeq(moved, LAMBDA b : b.y < 4500)

Abs(v) == IF v < 0 THEN -v ELSE v

\* one alien moves: sideways with a bounce at |x| > 3.5, and down
moveAlien(a, alienSpeed) ==
    LET a1 == IF a.vx # 0
              THEN LET x1 == a.x + a.vx
                   IN  IF Abs(x1) > 3500
                       THEN [a EXCEPT !.vx = -a.vx, !.x = x1 - a.vx]
                       ELSE [a EXCEPT !.x = x1]
              ELSE a
    IN  [a1 EXCEPT !.y = @ - alienSpeed]

updateAliens(aliens, alienSpeed) ==
    [i \in 1..Len(aliens) |-> moveAlien(aliens[i], alienSpeed)]

\* the hit test of a bullet against an alien
bulletHits(b, a) ==
    LET dy == a.y - b.y
        dx == a.x - b.x
        hitRadiusSq == IF a.isBoss THEN HIT_RADIUS_BOSS ELSE HIT_RADIUS_NORMAL
    IN  /\ ~(dy > 500 \/ dy < -500)
        /\ dx * dx + dy * dy < hitRadiusSq

findIndex(aliens, id) ==
    LET S == {i \in 1..Len(aliens) : aliens[i].id = id}
    IN  IF S = {} THEN 0 ELSE Min(S)

\* the body of the bullet loop without the entry in bulletsToRemove (a
\* fault the removal of every bullet that hit detects)
collideBulletKeepingBullet(f, b) ==
    IF b.id \in f.removed \/ b.y < -4000 \/ b.y > 5000 THEN f
    ELSE LET aliens == f.st.aliens
             hitSet == {ai \in 1..Len(aliens) : bulletHits(b, aliens[ai])}
         IN  IF hitSet = {} THEN f
             ELSE LET a == aliens[Min(hitSet)]
                      alienIndex == findIndex(aliens, a.id)
                      hit == [aliens[alienIndex] EXCEPT !.hp = @ - 1]
                  IN  [f EXCEPT !.st.shotsHit = @ + 1,
                                !.st.aliens[alienIndex] = hit,
                                !.destroyed = IF hit.hp <= 0 THEN Append(@, hit) ELSE @]

\* the bullet loop's body counting two hits for a bullet that hits (a fault
\* the bound of shotsHit by shotsFired detects)
collideBulletCountingTwice(f, b) ==
    IF b.id \in f.removed \/ b.y < -4000 \/ b.y > 5000 THEN f
    ELSE LET aliens == f.st.aliens
             hitSet == {ai \in 1..Len(aliens) : bulletHits(b, aliens[ai])}
         IN  IF hitSet = {} THEN f
             ELSE LET a == aliens[Min(hitSet)]
                      alienIndex == findIndex(aliens, a.id)
                      hit == [aliens[alienIndex] EXCEPT !.hp = @ - 1]
                  IN  [f EXCEPT !.removed = @ \cup {b.id},
                                !.st.shotsHit = @ + 2,
                                !.st.aliens[alienIndex] = hit,
                                !.destroyed = IF hit.hp <= 0 THEN Append(@, hit) ELSE @]

\* the body of the bullet loop for one bullet
collideBullet(f, b) ==
    IF b.id \in f.removed \/ b.y < -4000 \/ b.y > 5000 THEN f
    ELSE LET aliens == f.st.aliens
             hitSet == {ai \in 1..Len(aliens) : bulletHits(b, aliens[ai])}
         IN  IF hitSet = {} THEN f
             ELSE LET a == aliens[Min(hitSet)]
                      alienIndex == findIndex(aliens, a.id)
                      hit == [aliens[alienIndex] EXCEPT !.hp = @ - 1]
                  IN  [f EXCEPT !.removed = @ \cup {b.id},
                                !.st.shotsHit = @ + 1,
                                !.st.aliens[alienIndex] = hit,
                                !.destroyed = IF hit.hp <= 0 THEN Append(@, hit) ELSE @]

\* the bullet loop from bullet bi on; a bullet that hits nothing leaves the
\* frame as it is, so the loop is taken up at the next bullet that hits
RECURSIVE collideFrom(_, _)
collideFrom(f, bi) ==
    With({i \in bi..Len(f.st.bullets) : collideBullet(f, f.st.bullets[i]) # f},
         LAMBDA hitting :
            IF hitting = {} THEN f
            ELSE With(Min(hitting), LAMBDA i :
                 With(collideBullet(f, f.st.bullets[i]),
                      LAMBDA g : collideFrom(g, i + 1))))

\* the shield power-up without its cap (a fault the bound on lives detects)
shieldLivesUncapped(lives) == lives + 1

\* the shield power-up: one life more, at most 3
shieldLives(lives) == MinOf(3, lives + 1)

\* the drop applied without the search for an entry of its type (a fault
\* the single entry per type detects)
applyDropStacking(s, powerUp, expiresAt) ==
    IF powerUp = "shield"
    THEN [s EXCEPT !.lives = shieldLives(s.lives), !.powerUpsCollected = @ + 1]
    ELSE [s EXCEPT !.activePowerUps =
                       Append(@, [type |-> powerUp, expiresAt |-> expiresAt]),
                   !.powerUpsCollected = @ + 1]

\* the power-up an alien drops, applied
applyDrop(s, powerUp, expiresAt) ==
    IF powerUp = "shield"
    THEN [s EXCEPT !.lives = shieldLives(s.lives), !.powerUpsCollected = @ + 1]
    ELSE LET S == {i \in 1..Len(s.activePowerUps) : s.activePowerUps[i].type = powerUp}
         IN  IF S # {}
             THEN [s EXCEPT !.activePowerUps[Min(S)].expiresAt = expiresAt,
                            !.powerUpsCollected = @ + 1]
             ELSE [s EXCEPT !.activePowerUps =
                                Append(@, [type |-> powerUp, expiresAt |-> expiresAt]),
                            !.powerUpsCollected = @ + 1]

\* the victory a boss defeat grants at a level
bossVictory(s) ==
    IF s.level >= 100
    THEN [s EXCEPT !.status = "victory", !.victoryType = "ultimate",
                   !.victoryTitle = "COSMIC SAVIOR"]
    ELSE IF s.level >= 50
    THEN [s EXCEPT !.status = "victory", !.victoryType = "major",
                   !.victoryTitle = "ELITE SECTOR"]
    ELSE IF s.level >= 10
    THEN [s EXCEPT !.status = "victory", !.victoryType = "minor",
                   !.victoryTitle = "SECTOR CLEARED"]
    ELSE s

\* the points of one kill
killPoints(s, alien) ==
    alienRewards[alien.type].points * s.scoreMultiplier * (IF alien.isBoss THEN 5 ELSE 1)

\* whether reaching this combo adds the PERFECT bonus
perfectBonusDue(combo) == combo = 50

\* the kill loop's body with the drop decided by the draw alone, for a boss
\* too (a fault the sure drop of a boss detects)
processKillByDrawAlone(f, alien, currentTime, draw) ==
    LET s == f.st
        reward == alienRewards[alien.type]
        combo == s.combo + 1
        perfect == perfectBonusDue(combo)
        s1 == [s EXCEPT !.combo = combo,
                        !.maxCombo = MaxOf(s.maxCombo, combo),
                        !.comboTimer = 2000,
                        !.totalKills = @ + 1,
                        !.waveKills = @ + 1,
                        !.escapeStreak = 0,
                        !.score = @ + (IF perfect THEN PERFECT_COMBO_BONUS ELSE 0)
                                    + killPoints(s, alien)]
        shouldDrop == draw < getPowerUpDropChance(s1.level)
        s2 == IF shouldDrop
              THEN applyDrop(s1, reward.powerUp, currentTime + getPowerUpDuration(s1.level))
              ELSE s1
        s3 == IF alien.isBoss THEN bossVictory([s2 EXCEPT !.bossActive = FALSE]) ELSE s2
    IN  [f EXCEPT !.st = s3, !.awards = @ + (IF perfect THEN 1 ELSE 0)]

\* the body of the kill loop for one destroyed alien; draw is Math.random()
processKill(f, alien, currentTime, draw) ==
    LET s == f.st
        reward == alienRewards[alien.type]
        combo == s.combo + 1
        perfect == perfectBonusDue(combo)
        s1 == [s EXCEPT !.combo = combo,
                        !.maxCombo = MaxOf(s.maxCombo, combo),
                        !.comboTimer = 2000,
                        !.totalKills = @ + 1,
                        !.waveKills = @ + 1,
                        !.escapeStreak = 0,
                        !.score = @ + (IF perfect THEN PERFECT_COMBO_BONUS ELSE 0)
                                    + killPoints(s, alien)]
        shouldDrop == alien.isBoss \/ draw < getPowerUpDropChance(s1.level)
        s2 == IF shouldDrop
              THEN applyDrop(s1, reward.powerUp, currentTime + getPowerUpDuration(s1.level))
              ELSE s1
        s3 == IF alien.isBoss THEN bossVictory([s2 EXCEPT !.bossActive = FALSE]) ELSE s2
    IN  [f EXCEPT !.st = s3, !.awards = @ + (IF perfect THEN 1 ELSE 0)]

RECURSIVE processKillsFrom(_, _, _, _)
processKillsFrom(f, k, currentTime, draws) ==
    IF k > Len(f.destroyed) THEN f
    ELSE With(processKill(f, f.destroyed[k], currentTime, draws[k]),
              LAMBDA g : processKillsFrom(g, k + 1, currentTime, draws))

\* destroyed aliens and the bullets that hit leave the lists
removeDestroyed(f) ==
    [f EXCEPT !.st.aliens = SelectSeq(@, LAMBDA a : a.hp > 0),
              !.st.bullets = SelectSeq(@, LAMBDA b : b.id \notin f.removed)]

withoutAlien(aliens, id) == SelectSeq(aliens, LAMBDA alien : alien.id # id)

\* the cannon-alien collision with < for <= in its test of the lives left
\* (a fault the game over at lives 0 detects)
cannonCollisionNoGameOver(s) ==
    LET radiusSq == CANNON_HIT_RADIUS * CANNON_HIT_RADIUS
        near(a) == LET dx == a.x - s.playerX
                       dy == a.y - s.playerY
                   IN  dx * dx + dy * dy < radiusSq
        S == {i \in 1..Len(s.aliens) : near(s.aliens[i])}
    IN  IF S = {} THEN s
        ELSE LET a == s.aliens[Min(S)]
                 s1 == [s EXCEPT !.lives = @ - 1, !.combo = 0,
                                 !.aliens = withoutAlien(@, a.id)]
             IN  IF s1.lives < 0
                 THEN [s1 EXCEPT !.lives = 0, !.status = "gameOver"]
                 ELSE s1

\* the cannon-alien collision: the first alien within the cannon's radius
cannonCollision(s) ==
    LET radiusSq == CANNON_HIT_RADIUS * CANNON_HIT_RADIUS
        near(a) == LET dx == a.x - s.playerX
                       dy == a.y - s.playerY
                   IN  dx * dx + dy * dy < radiusSq
        S == {i \in 1..Len(s.aliens) : near(s.aliens[i])}
    IN  IF S = {} THEN s
        ELSE LET a == s.aliens[Min(S)]
                 s1 == [s EXCEPT !.lives = @ - 1, !.combo = 0,
                                 !.aliens = withoutAlien(@, a.id)]
             IN  IF s1.lives <= 0
                 THEN [s1 EXCEPT !.lives = 0, !.status = "gameOver"]
                 ELSE s1

\* the bottom loop's body with a penalty of 100 whatever the level (a fault
\* the penalties by level detect)
alienEscapesFlatPenalty(f, a, currentTime, pressure) ==
    LET s == f.st
        s1 == [s EXCEPT !.lives = MaxOf(0, @ - 1),
                        !.missedAliens = @ + 1,
                        !.escapeStreak = @ + 1,
                        !.missesInWindow = @ + 1]
        softLoss == s1.missesInWindow >= MISS_THRESHOLD
        s2 == IF softLoss
              THEN [s1 EXCEPT !.combo = 0, !.comboTimer = 0, !.missesInWindow = 0,
                              !.missWindowStart = currentTime]
              ELSE s1
        s3 == IF a.isBoss THEN [s2 EXCEPT !.status = "gameOver", !.lives = 0] ELSE s2
        s4 == IF s3.escapeStreak >= 5
              THEN [s3 EXCEPT !.status = "gameOver", !.lives = 0]
              ELSE s3
        s5 == [s4 EXCEPT !.score = MaxOf(0, @ - 100)]
        s6 == [s5 EXCEPT !.aliens = withoutAlien(@, a.id)]
        s7 == IF s6.lives = 0 THEN [s6 EXCEPT !.status = "gameOver"] ELSE s6
    IN  [f EXCEPT !.st = s7,
                  !.log = IF softLoss THEN << >> ELSE Append(@, currentTime)]

\* the body of the bottom loop for one alien with y < -3
alienEscapes(f, a, currentTime, pressure) ==
    LET s == f.st
        s1 == [s EXCEPT !.lives = MaxOf(0, @ - 1),
                        !.missedAliens = @ + 1,
                        !.escapeStreak = @ + 1,
                        !.missesInWindow = @ + 1]
        softLoss == s1.missesInWindow >= MISS_THRESHOLD
        s2 == IF softLoss
              THEN [s1 EXCEPT !.combo = 0, !.comboTimer = 0, !.missesInWindow = 0,
                              !.missWindowStart = currentTime]
              ELSE s1
        s3 == IF a.isBoss THEN [s2 EXCEPT !.status = "gameOver", !.lives = 0] ELSE s2
        s4 == IF s3.escapeStreak >= 5
              THEN [s3 EXCEPT !.status = "gameOver", !.lives = 0]
              ELSE s3
        s5 == IF pressure.missedPenalty > 0
              THEN [s4 EXCEPT !.score = MaxOf(0, @ - pressure.missedPenalty)]
              ELSE s4
        s6 == [s5 EXCEPT !.aliens = withoutAlien(@, a.id)]
        s7 == IF s6.lives = 0 THEN [s6 EXCEPT !.status = "gameOver"] ELSE s6
    IN  [f EXCEPT !.st = s7,
                  !.log = IF softLoss THEN << >> ELSE Append(@, currentTime)]

\* the bottom loop runs over the aliens list as it is when the loop starts
\* (taken up at the next alien with y < -3: the others are passed over)
RECURSIVE aliensReachingBottom(_, _, _, _, _)
aliensReachingBottom(f, snapshot, i, currentTime, pressure) ==
    With({j \in i..Len(snapshot) : snapshot[j].y < -3000}, LAMBDA escaping :
        IF escaping = {} THEN f
        ELSE With(Min(escaping), LAMBDA j :
             With(alienEscapes(f, snapshot[j], currentTime, pressure),
                  LAMBDA g : aliensReachingBottom(g, snapshot, j + 1,
                                                  currentTime, pressure))))

\* the tick up to and including the bullet-alien collisions
tickCollide(s, currentTime, log) ==
    With(tickTimers(s, currentTime), LAMBDA s1 :
    LET alienSpeed == getAlienSpeed(s1.level, s1.wave, hasPowerUp(s1, "slowMotion"))
        s2 == [s1 EXCEPT !.bullets = updateBullets(@),
                         !.aliens = updateAliens(@, alienSpeed)]
    IN  With(frameOf(s2, log), LAMBDA f : collideFrom(f, 1)))

\* the tick from the kill loop on
tickResolve(f, currentTime, draws) ==
    With(removeDestroyed(processKillsFrom(f, 1, currentTime, draws)), LAMBDA f1 :
    With([f1 EXCEPT !.st = cannonCollision(f1.st)], LAMBDA f2 :
    aliensReachingBottom(f2, f2.st.aliens, 1, currentTime,
                         getScorePressure(f2.st.level))))

-----------------------------------------------------------------------------
(* Inputs the actions draw from *)

\* move payloads: a push beyond the right edge
MoveInputs ==
    { [dx |-> 7, dy |-> 0, sensitivity |-> 1000] }

Alien(x, y, type, hp, isBoss) ==
    [x |-> x, y |-> y, type |-> type, hp |-> hp, isBoss |-> isBoss, vx |-> 0]

\* spawnAlien payloads: in the path of a bullet just fired from the start
\* position (y = -1.6), next to the cannon (y = -2.4), and just above the
\* lower boundary (y = -2.99)
TargetAliens == { Alien(0, -1600, "red", 1, FALSE), Alien(0, -1600, "green", 1, FALSE) }
RammingAliens == { Alien(0, -2400, "red", 1, FALSE) }
EscapingAliens == { Alien(0, -2990, "red", 1, FALSE) }
EscapingBoss == { Alien(0, -2990, "yellow", 1, TRUE) }
BossAliens ==
    { Alien(0, -1600, "yellow", 1, TRUE), Alien(0, -2400, "yellow", 1, TRUE) }
        \cup EscapingBoss

RedTarget == { Alien(0, -1600, "red", 1, FALSE) }

\* spawnBoss payloads
BossInputs == { [hp |-> 1, type |-> "yellow"], [hp |-> 2, type |-> "yellow"] }

\* updateBossHP payloads
BossHPInputs == {0, 1}

\* incrementScore payloads: the score that level 20 requires
ScoreInputs == { getRequiredScoreForLevel(20) }

-----------------------------------------------------------------------------
(* ProfilePage.tsx: the game loop.  Its effect captures the values of its  *)
(* dependency list when it runs, and starts the frame callback with fresh  *)
(* locals; the callback reads the frame time only through the time elapsed *)
(* since its last tick, spawn, boss check and shot, which is what the      *)
(* model keeps (an unset local compares as long ago).                      *)

ElapsedCap == 2000  \* elapsed times are kept up to the longest interval read

\* the values the effect's dependency list names
capturedOf(s) ==
    [ status |-> s.status, level |-> s.level, wave |-> s.wave,
      waveKills |-> s.waveKills, hasFireRate |-> hasPowerUp(s, "fireRate"),
      bossActive |-> s.bossActive ]

\* the effect run against a state: nothing to do unless playing or in a
\* boss fight, else a loop with lastTickTime, lastSpawnTime, lastFireTime
\* and lastBossCheckTime unset
gameLoopEffect(s) ==
    [ captured |-> capturedOf(s),
      running |-> s.status \in {"playing", "boss"},
      lastTickSet |-> FALSE,
      sinceSpawn |-> ElapsedCap, sinceBossCheck |-> ElapsedCap,
      sinceFire |-> ElapsedCap ]

\* getFormation(level, wave): the formations it can return, Math.random()
\* ranging over SpawnXs for a lone alien's x, over SwarmCenters for a
\* swarm's centre; each position with the vx the spawner gives it
Position(x, y, vx) == [x |-> x, y |-> y, vx |-> vx]

SpawnXs == {0, 2000}
SwarmCenters == {0}

getFormation(level, wave) ==
    LET lone == { << Position(x, 4000, 0) >> : x \in SpawnXs }
        vShape == << Position(0, 4000, 0), Position(-800, 4300, 0),
                     Position(800, 4300, 0), Position(-1500, 4600, 0),
                     Position(1500, 4600, 0) >>
        horizontal(dir) == << Position(-2000, 4000, dir), Position(-1000, 4000, dir),
                              Position(0, 4000, dir), Position(1000, 4000, dir),
                              Position(2000, 4000, dir) >>
        staggered == << Position(-2000, 4000, 0), Position(0, 4300, 0),
                        Position(2000, 4000, 0), Position(-1000, 4600, 0),
                        Position(1000, 4600, 0) >>
        swarm(c) == << Position(c, 4000, -10), Position(c - 400, 4100, -15),
                       Position(c + 400, 4100, 15), Position(c - 600, 4300, -20),
                       Position(c + 600, 4300, 20), Position(c - 300, 4500, 0),
                       Position(c + 300, 4500, 0), Position(c, 4600, 0) >>
    IN  IF level < 30 THEN lone
        ELSE lone \cup {vShape}
                  \cup (IF level >= 40 THEN {horizontal(20), horizontal(-20)} ELSE {})
                  \cup (IF level >= 50 THEN {staggered} ELSE {})
                  \cup (IF level >= 70 THEN {swarm(c) : c \in SwarmCenters} ELSE {})

\* getWeightedAlienType: every type has a positive weight at every level;
\* the loop's model draws from these
LoopAlienTypes == {"red"}

\* the boss's type at a level
bossTypes == << "purple", "cyan", "yellow", "red", "blue", "green" >>
bossTypeAt(level) == bossTypes[((level \div 10) % 6) + 1]

\* The number generateId draws in the loop's model.  The reducers compare
\* an id only with the ids of the bullets and aliens on screen, so the
\* loop's model draws the least number none of them holds, which keeps the
\* ids of an endless match in a finite range.
idNumbers(s) ==
    {s.bullets[i].id[1] : i \in 1..Len(s.bullets)}
        \cup {s.aliens[i].id[2] : i \in 1..Len(s.aliens)}

freeId(s) ==
    Min({n \in 1..(Len(s.bullets) + Len(s.aliens) + 1) : n \notin idNumbers(s)})

\* the spawner's forEach: spawnAlien and incrementWaveSpawns per position
RECURSIVE spawnFormation(_, _, _, _, _)
spawnFormation(s, positions, types, hp, i) ==
    IF i > Len(positions) THEN s
    ELSE LET pos == positions[i]
             payload == [x |-> pos.x, y |-> pos.y, type |-> types[i], hp |-> hp,
                         isBoss |-> FALSE, vx |-> pos.vx]
         IN  With(incrementWaveSpawns(spawnAlien(s, payload, freeId(s))),
                  LAMBDA s1 : spawnFormation(s1, positions, types, hp, i + 1))

elapse(since, ms) == MinOf(ElapsedCap, since + ms)

\* the frame callback after its tick: the wave completion check, the
\* spawner, the boss check and auto-fire, against the captured values c;
\* s is the state the tick left, e the loop record at this frame's time
frameDispatches(s, c, e, t, formation, types) ==
    LET required == enemiesRequired(c.level, c.wave)
        waveDone == c.waveKills >= required /\ ~c.bossActive /\ c.status = "playing"
        spawnDue == /\ e.sinceSpawn >= getSpawnInterval(c.level, c.wave)
                    /\ ~c.bossActive /\ c.status = "playing"
        bossCheckDue == e.sinceBossCheck >= 1000
        bossDue == /\ bossCheckDue
                   /\ isBossLevel(c.level) /\ ~c.bossActive /\ c.wave = 5
                   /\ c.waveKills >= required
                   /\ getBossConfig(c.level) # "null"
        fireDue == e.sinceFire >= (IF c.hasFireRate THEN 100 ELSE 200)
        spawned(s0) == IF spawnDue
                       THEN spawnFormation(s0, formation, types,
                                           getAlienHP(c.level, c.wave), 1)
                       ELSE s0
        withBoss(s1) == IF bossDue
                        THEN spawnBoss(s1, getBossConfig(c.level).hp,
                                       bossTypeAt(c.level), freeId(s1))
                        ELSE s1
        fired(s2) == IF fireDue THEN fire(s2, t, freeId(s2)) ELSE s2
    IN  IF waveDone
        THEN [st |-> nextWave(s), loop |-> e]
        ELSE [st |-> With(spawned(s), LAMBDA s1 :
                     With(withBoss(s1), LAMBDA s2 : fired(s2))),
              loop |-> [e EXCEPT !.sinceSpawn = IF spawnDue THEN 0 ELSE @,
                                 !.sinceBossCheck = IF bossCheckDue THEN 0 ELSE @,
                                 !.sinceFire = IF fireDue THEN 0 ELSE @]]

-----------------------------------------------------------------------------
(* The actions: one per reducer, and the clock *)

-----------------------------------------------------------------------------
(* The game-over modal (GameOverModal.tsx) and the profile slice *)

\* setHighScore of the profile slice
setHighScore(highScore, payload) ==
    IF payload > highScore THEN payload ELSE highScore

\* the dependency list of the submit effect, as a render computes it
\* (settings.difficulty and dispatch never change)
submitDeps(s, m) ==
    [ status |-> s.status, score |-> s.score, level |-> s.level,
      isNewRecord |-> s.score > m.highScore,
      isAuthenticated |-> m.isAuthenticated, submitted |-> m.submitted ]

\* the submit effect, run with the values of the render of s and m
submitEffect(s, m) ==
    IF s.status # "gameOver" THEN m
    ELSE IF m.isAuthenticated /\ ~m.submitted
         THEN [m EXCEPT !.highScore = IF s.score > @
                                        THEN setHighScore(@, s.score) ELSE @,
                        !.submitting = TRUE,
                        !.submitError = FALSE,
                        !.pending = @ + 1,
                        !.posts = @ + 1]
         ELSE [m EXCEPT !.highScore = IF s.score > @
                                        THEN setHighScore(@, s.score) ELSE @]

\* the effect that resets the local state when the game restarts
resetSubmitted(s, m) ==
    IF s.status = "playing"
    THEN [m EXCEPT !.submitted = FALSE, !.serverHighScore = FALSE,
                   !.submitError = FALSE]
    ELSE m

\* the modal's effects after a render of s and m: the submit effect when
\* one of its dependencies changed, then the reset effect when status did
modalEffects(s, m) ==
    IF s.status # m.deps.status
    THEN [resetSubmitted(s, submitEffect(s, m)) EXCEPT !.deps = submitDeps(s, m)]
    ELSE [submitEffect(s, m) EXCEPT !.deps = submitDeps(s, m)]

\* the modal once mounted on s, signed out and with no high score: both
\* effects have run and found nothing to do
modalUnsubmitted ==
    [ highScore |-> 0, isAuthenticated |-> FALSE,
      submitting |-> FALSE, submitted |-> FALSE, submitError |-> FALSE,
      serverHighScore |-> FALSE, pending |-> 0, posts |-> 0 ]

modalMounted(s) ==
    [ highScore |-> 0, isAuthenticated |-> FALSE,
      submitting |-> FALSE, submitted |-> FALSE, submitError |-> FALSE,
      serverHighScore |-> FALSE, pending |-> 0, posts |-> 0,
      deps |-> submitDeps(s, modalUnsubmitted) ]

Init ==
    /\ state = initialState
    /\ now = 0
    /\ idCounter = 0
    /\ ticks = 0
    /\ perfectAwards = 0
    /\ escapeLog = << >>
    /\ pausedMs = 0
    /\ loop = gameLoopEffect(initialState)
    /\ modal = modalMounted(initialState)

history == <<perfectAwards, escapeLog, pausedMs>>

Move ==
    /\ \E m \in MoveInputs : state' = move(state, m.dx, m.dy, m.sensitivity)
    /\ UNCHANGED <<now, idCounter, ticks, history, loop, modal>>

Fire(maxId) ==
    /\ idCounter < maxId
    /\ state' = fire(state, now, idCounter + 1)
    /\ idCounter' = idCounter + 1
    /\ UNCHANGED <<now, ticks, history, loop, modal>>

SpawnAlien(inputs, maxId) ==
    /\ idCounter < maxId
    /\ \E p \in inputs :
          /\ state' = spawnAlien(state, p, idCounter + 1)
          /\ idCounter' = IF Len(state.aliens) >= ALIEN_LIMIT /\ ~p.isBoss
                          THEN idCounter ELSE idCounter + 1
    /\ UNCHANGED <<now, ticks, history, loop, modal>>

SpawnBoss(maxId) ==
    /\ idCounter < maxId
    /\ \E p \in BossInputs : state' = spawnBoss(state, p.hp, p.type, idCounter + 1)
    /\ idCounter' = idCounter + 1
    /\ UNCHANGED <<now, ticks, history, loop, modal>>

\* the state a tick leaves when Math.random() returns draws[k] at the k-th kill
TickWith(f, draws) ==
    \E g \in {tickResolve(f, now, draws)} :
        /\ state' = g.st
        /\ perfectAwards' = perfectAwards + g.awards
        /\ escapeLog' = g.log
        /\ pausedMs' = 0

Tick(maxTicks) ==
    /\ ticks < maxTicks
    /\ ticks' = ticks + 1
    /\ \E f \in {tickCollide(state, now, escapeLog)} :
          \E draws \in [1..Len(f.destroyed) -> RandomDraws] : TickWith(f, draws)
    /\ UNCHANGED <<now, idCounter, loop, modal>>

Reset ==
    /\ state' = reset(state, now)
    /\ perfectAwards' = 0
    /\ escapeLog' = << >>
    /\ pausedMs' = 0
    /\ UNCHANGED <<now, idCounter, ticks, loop, modal>>

ContinueAfterVictory ==
    /\ state' = continueAfterVictory(state)
    /\ UNCHANGED <<now, idCounter, ticks, history, loop, modal>>

NextWave ==
    /\ state.wavesCompleted < MaxWaves
    /\ state' = nextWave(state)
    /\ UNCHANGED <<now, idCounter, ticks, history, loop, modal>>

StartBoss ==
    /\ state' = startBoss(state)
    /\ UNCHANGED <<now, idCounter, ticks, history, loop, modal>>

UpdateBossHP ==
    /\ \E hp \in BossHPInputs : state' = updateBossHP(state, hp)
    /\ UNCHANGED <<now, idCounter, ticks, history, loop, modal>>

IncrementScore ==
    /\ \E n \in ScoreInputs :
          /\ state.score < n * MaxScoreGrants
          /\ state' = incrementScore(state, n)
    /\ UNCHANGED <<now, idCounter, ticks, history, loop, modal>>

\* Date.now() moves on
AdvanceClock ==
    /\ now < MaxClockSteps * ClockStepMs
    /\ now' = now + ClockStepMs
    /\ pausedMs' = IF state.status = "paused" THEN pausedMs + ClockStepMs ELSE pausedMs
    /\ UNCHANGED <<state, idCounter, ticks, perfectAwards, escapeLog, loop, modal>>

-----------------------------------------------------------------------------
(* Spec: a match driven through the reducers move, fire, spawnAlien,       *)
(* spawnBoss, tick, nextWave, continueAfterVictory and reset.              *)

Next ==
    \/ Move
    \/ Fire(MaxId)
    \/ SpawnAlien(TargetAliens \cup RammingAliens \cup EscapingAliens
                      \cup EscapingBoss, MaxId)
    \/ SpawnBoss(MaxId)
    \/ Tick(MaxTicks)
    \/ NextWave
    \/ ContinueAfterVictory
    \/ Reset

Spec == Init /\ [][Next]_vars

\* a step that dispatches tick
TickStep == ticks' = ticks + 1

\* C1: in every state reachable through move, fire, spawnAlien, spawnBoss,
\* tick, nextWave, continueAfterVictory and reset, lives is at least 0 and at
\* most 3.
LivesWithinBounds == state.lives \in 0..3

\* C1, the case reached: a shield was collected with all three lives left
\* (the only pickup so far, so no power-up is active), and lives is still 3.
ShieldAtFullLives ==
    /\ state.lives = 3
    /\ state.powerUpsCollected = 1
    /\ state.activePowerUps = << >>
    /\ state.totalKills = 1

\* C7: every tick that destroys exactly one alien, with no PERFECT bonus and
\* no alien crossing the lower boundary in the same tick, adds
\* floor(500 * alienHP * wave * comboMultiplier * modeMultiplier *
\* bossMultiplier) to score and 1 to combo; a 1-HP red alien in wave 1 at
\* combo 0 in normal mode adds 500.
KillAddsSpecifiedScore ==
    [][ LET f == tickCollide(state, now, escapeLog)
        IN  ( /\ TickStep
              /\ Len(f.destroyed) = 1
              /\ f.st.combo + 1 # 50
              /\ state'.missedAliens = state.missedAliens
              /\ state'.lives >= state.lives )
            => /\ state'.score = state.score
                     + calculateKillScore(f.destroyed[1].maxHp, f.st.wave, f.st.combo,
                                          f.destroyed[1].isBoss, f.st.difficultyMode)
               /\ state'.combo = f.st.combo + 1
      ]_vars

-----------------------------------------------------------------------------
(* SpecBoss: the boss encounter driven through spawnBoss, spawnAlien,      *)
(* startBoss, updateBossHP, tick and reset, with fire to shoot the boss    *)
(* and incrementScore to bring the match to a higher level.                *)

NextBoss ==
    \/ SpawnBoss(MaxId)
    \/ SpawnAlien(BossAliens, MaxId)
    \/ StartBoss
    \/ UpdateBossHP
    \/ Fire(MaxId)
    \/ IncrementScore
    \/ Tick(MaxTicks)
    \/ Reset

SpecBoss == Init /\ [][NextBoss]_vars

idsOf(list) == {list[i].id : i \in 1..Len(list)}

bossCount(s) == Cardinality({i \in 1..Len(s.aliens) : s.aliens[i].isBoss})

\* C2: in every state reachable through spawnBoss, spawnAlien, startBoss,
\* updateBossHP, tick and reset, bossActive is true if and only if exactly
\* one alien of the aliens list is a boss.
BossActiveIffOneBoss == state.bossActive <=> bossCount(state) = 1

\* C3: a tick sets status to victory only when it destroys a boss while
\* level is exactly 10, 50 or 100.
VictoryOnlyAtThresholds ==
    [][ LET f == tickCollide(state, now, escapeLog)
        IN  (TickStep /\ state'.status = "victory" /\ state.status # "victory")
            => /\ \E k \in 1..Len(f.destroyed) : f.destroyed[k].isBoss
               /\ state'.level \in {10, 50, 100}
      ]_vars

\* C4: a tick removes an active boss (hp > 0) from the aliens list only when
\* it destroys the boss or when the boss crosses the lower boundary and the
\* status becomes gameOver; a collision with the player does not remove it.
ActiveBossLeavesOnlyDefeatedOrFailed ==
    [][ LET f == tickCollide(state, now, escapeLog)
        IN  TickStep =>
              \A i \in 1..Len(state.aliens) :
                 LET a == state.aliens[i]
                     moved == f.st.aliens[findIndex(f.st.aliens, a.id)]
                 IN  (a.isBoss /\ a.hp > 0 /\ a.id \notin idsOf(state'.aliens))
                     => \/ a.id \in idsOf(f.destroyed)
                        \/ moved.y < -3000 /\ state'.status = "gameOver"
      ]_vars

-----------------------------------------------------------------------------
(* SpecMisses: aliens shot, rammed into the cannon and let through the     *)
(* lower boundary while the clock advances.                                *)

NextMisses ==
    \/ SpawnAlien(TargetAliens \cup RammingAliens \cup EscapingAliens
                      \cup EscapingBoss, MaxMissIds)
    \/ Fire(MaxMissIds)
    \/ Tick(MaxTicks)
    \/ AdvanceClock
    \/ Reset

SpecMisses == Init /\ [][NextMisses]_vars

\* C6: a tick sets status to gameOver only if lives reached 0, a boss crossed
\* the lower boundary or at least 5 aliens escaped in a row; and a tick in
\* which no alien is destroyed, none touches the cannon and only ordinary
\* aliens cross the lower boundary (fewer than 5 in a row) leaves lives as
\* they were.
GameOverAndEscapesAsSpecified ==
    [][ LET f == removeDestroyed(tickCollide(state, now, escapeLog))
            crossing == {i \in 1..Len(f.st.aliens) : f.st.aliens[i].y < -3000}
            bossCrossed == \E i \in crossing : f.st.aliens[i].isBoss
        IN  TickStep =>
              /\ (state'.status = "gameOver" /\ state.status # "gameOver")
                 => (state'.lives = 0 \/ bossCrossed \/ state'.escapeStreak >= 5)
              /\ ( /\ f.destroyed = << >>
                   /\ cannonCollision(f.st) = f.st
                   /\ crossing # {}
                   /\ ~bossCrossed
                   /\ state'.escapeStreak < 5 )
                 => state'.lives = state.lives
      ]_vars

\* C9: whenever a tick reduces lives, combo is 0 after that tick.
LifeLossResetsCombo ==
    [][ (TickStep /\ state'.lives < state.lives) => state'.combo = 0 ]_vars

\* C10: three escapes at tick times less than 10 seconds apart are answered
\* by the miss-window reset (combo 0, missesInWindow 0) at the third: there
\* are never three escapes within 10 seconds that no reset has answered.
ThreeEscapesWithinWindowReset ==
    LET n == Len(escapeLog)
    IN  n >= 3 => escapeLog[n] - escapeLog[n - 2] >= MISS_WINDOW

-----------------------------------------------------------------------------
(* SpecCombo: one player building a combo.  A red alien is spawned in the  *)
(* line of fire when the screen is empty, shot, and the next one spawned;  *)
(* once the combo has reached 50 an alien may instead be spawned next to   *)
(* the cannon, which it rams.                                              *)

ComboSpawnTarget ==
    /\ state.aliens = << >>
    /\ SpawnAlien(RedTarget, MaxComboIds)

ComboSpawnRammer ==
    /\ state.aliens = << >>
    /\ state.combo >= 50
    /\ SpawnAlien(RammingAliens, MaxComboIds)

ComboFire ==
    /\ state.bullets = << >>
    /\ \E i \in 1..Len(state.aliens) : state.aliens[i].y > state.playerY + 500
    /\ Fire(MaxComboIds)

ComboTick ==
    /\ state.aliens # << >>
    /\ \/ state.bullets # << >>
       \/ \E i \in 1..Len(state.aliens) : state.aliens[i].y <= state.playerY + 500
    /\ Tick(MaxComboTicks)

NextCombo ==
    \/ ComboSpawnTarget
    \/ ComboSpawnRammer
    \/ ComboFire
    \/ ComboTick

SpecCombo == Init /\ [][NextCombo]_vars

\* C8: between two resets the PERFECT bonus is added to score at most once.
PerfectBonusAtMostOnce == perfectAwards <= 1

-----------------------------------------------------------------------------
(* SpecLoop: the game loop of ProfilePage.tsx driving the reducers, from a *)
(* match in the fifth wave of level 20, one kill short of the 55 the wave  *)
(* requires, with the last alien of the wave (hit once already) in the     *)
(* line of fire.  Every store update re-renders the page before the next   *)
(* frame, so a frame always runs with the values of the current state.     *)
(*                                                                         *)
(* The start is a state of a match: the first four waves of a match and    *)
(* 54 kills of its fifth bring the score to anything between 63600 and     *)
(* 931000, and level 20 is the score range 127607..139660.                 *)
(*                                                                         *)
(* The loop measures time with the frame timestamps, modelled by the       *)
(* elapsed counters of loop; Date.now(), which only tick's idle, miss-     *)
(* window, combo-decay and power-up timers read, stands still here.        *)

bossWaveState ==
    [initialState EXCEPT
        !.score = 130000, !.level = 20, !.previousLevel = 20,
        !.wave = 5, !.waveKills = 54, !.waveEnemiesSpawned = 55,
        !.status = "playing", !.wavesCompleted = 4,
        !.totalKills = 120, !.maxCombo = 20,
        !.shotsFired = 400, !.shotsHit = 180, !.powerUpsCollected = 120,
        !.aliens = << [id |-> <<"e", 1>>, x |-> 0, y |-> -1600, type |-> "red",
                       hp |-> 1, maxHp |-> 2, isBoss |-> FALSE, vx |-> 0] >>]

InitLoop ==
    /\ state = bossWaveState
    /\ now = 0
    /\ idCounter = 1
    /\ ticks = 0
    /\ perfectAwards = 0
    /\ escapeLog = << >>
    /\ pausedMs = 0
    /\ loop = gameLoopEffect(bossWaveState)
    /\ modal = modalMounted(bossWaveState)

\* shotsFired grows with every shot of an endless match and is read by no
\* reducer and by no check of the loop; the loop's model stops counting it
\* at MaxShotsCounted
countedShots(s) == [s EXCEPT !.shotsFired = MinOf(@, MaxShotsCounted)]

\* one call of the frame callback gameLoop, with the values its effect
\* captured
gameLoop ==
    /\ loop.running
    /\ \E c \in {loop.captured},
          f0 \in {tickCollide(state, now, escapeLog)},
          e \in {[loop EXCEPT !.lastTickSet = TRUE,
                              !.sinceSpawn = elapse(@, FrameMs),
                              !.sinceBossCheck = elapse(@, FrameMs),
                              !.sinceFire = elapse(@, FrameMs)]} :
          LET tickDue == loop.lastTickSet /\ FrameMs >= 16
          IN  \E draws \in [1..(IF tickDue THEN Len(f0.destroyed) ELSE 0) -> RandomDraws],
                 formation \in getFormation(c.level, c.wave) :
                \E types \in [1..Len(formation) -> LoopAlienTypes],
                   g \in {IF tickDue THEN tickResolve(f0, now, draws)
                          ELSE frameOf(state, escapeLog)} :
                   \E r \in {frameDispatches(g.st, c, e, now, formation, types)} :
                      /\ state' = countedShots(r.st)
                      /\ loop' = r.loop
                      /\ perfectAwards' = perfectAwards + g.awards
                      /\ escapeLog' = g.log
                      /\ pausedMs' = 0
    /\ UNCHANGED <<now, idCounter, ticks, modal>>

\* a frame of a loop whose captured values are those of the current state
LoopFrame ==
    /\ loop.captured = capturedOf(state)
    /\ gameLoop

\* the page re-renders after a store update: the effect's cleanup cancels
\* the pending frame and the effect runs again
LoopRender ==
    /\ loop.captured # capturedOf(state)
    /\ loop' = gameLoopEffect(state)
    /\ UNCHANGED <<state, now, idCounter, ticks, history, modal>>

NextLoop ==
    \/ LoopFrame
    \/ LoopRender

\* the browser keeps scheduling frames and React keeps rendering
SpecLoop ==
    InitLoop /\ [][NextLoop]_vars /\ WF_vars(LoopFrame) /\ WF_vars(LoopRender)

\* the wave of a boss level is cleared while playing
BossWaveCleared ==
    /\ isBossLevel(state.level)
    /\ state.wave = 5
    /\ state.waveKills >= enemiesRequired(state.level, state.wave)
    /\ state.status = "playing"

\* C5: whenever level is a multiple of 10, wave is 5, waveKills has reached
\* enemiesRequired and status is playing, the game loop eventually spawns
\* the boss: bossActive becomes true.
BossEventuallySpawns == BossWaveCleared ~> state.bossActive

-----------------------------------------------------------------------------
(* SpecVictory: a match brought to a boss level by score, its waves        *)
(* advanced with nextWave, a boss spawned in the line of fire and shot,    *)
(* and the victory answered with continueAfterVictory or reset.            *)

MaxVictoryWaves == 5    \* nextWave dispatches in one behaviour of SpecVictory

\* incrementScore payloads: the scores that levels 10, 50 and 100 require
VictoryScoreInputs ==
    { getRequiredScoreForLevel(10), getRequiredScoreForLevel(50),
      getRequiredScoreForLevel(100) }

\* spawnAlien payload: a boss in the path of a bullet fired from the start
BossTarget == { Alien(0, -1600, "yellow", 1, TRUE) }

\* the score is granted once, before the match has earned any
VictoryScore ==
    /\ \E n \in VictoryScoreInputs :
          /\ state.score = 0
          /\ state' = incrementScore(state, n)
    /\ UNCHANGED <<now, idCounter, ticks, history, loop, modal>>

VictoryNextWave ==
    /\ state.wavesCompleted < MaxVictoryWaves
    /\ state' = nextWave(state)
    /\ UNCHANGED <<now, idCounter, ticks, history, loop, modal>>

NextVictory ==
    \/ VictoryScore
    \/ VictoryNextWave
    \/ SpawnAlien(BossTarget, MaxId)
    \/ Fire(MaxId)
    \/ Tick(MaxTicks)
    \/ ContinueAfterVictory
    \/ Reset

SpecVictory == Init /\ [][NextVictory]_vars

\* C11: once the victory is the ultimate one, only reset moves status away
\* from victory; and a continueAfterVictory that takes status from victory
\* to playing follows a minor or a major victory.
UltimateVictoryIsTerminal ==
    [][ /\ (state.status = "victory" /\ state.victoryType = "ultimate")
           => (state'.status = "victory" \/ state' = reset(state, now))
        /\ ( /\ state.status = "victory"
             /\ state' = continueAfterVictory(state)
             /\ state'.status = "playing" )
           => state.victoryType \in {"minor", "major"}
      ]_vars

\* C12: a tick that destroys the boss at level 10 leaves status victory,
\* victoryType minor and victoryTitle "SECTOR CLEARED"; and
\* continueAfterVictory after that victory leaves status playing, wave 1,
\* level 11 and victoryType and victoryTitle cleared.
MinorVictoryThenLevelEleven ==
    [][ LET f == tickCollide(state, now, escapeLog)
        IN  /\ ( /\ TickStep
                 /\ f.st.level = 10
                 /\ \E k \in 1..Len(f.destroyed) : f.destroyed[k].isBoss )
               => /\ state'.status = "victory"
                  /\ state'.victoryType = "minor"
                  /\ state'.victoryTitle = "SECTOR CLEARED"
            /\ ( /\ state.status = "victory"
                 /\ state.victoryType = "minor"
                 /\ state.level = 10
                 /\ state' = continueAfterVictory(state)
                 /\ state' # state )
               => /\ state'.status = "playing"
                  /\ state'.victoryType = "null"
                  /\ state'.victoryTitle = ""
                  /\ state'.wave = 1
                  /\ state'.level = 11
      ]_vars

-----------------------------------------------------------------------------
(* SpecBullets: a player who shoots an alien that drops spreadShot (cyan)  *)
(* or doubleBullets (purple), or none, and then keeps firing while few     *)
(* ticks pass, so that the bullets pile up on screen.                      *)

MaxBulletIds == 38  \* ids generated in one behaviour of SpecBullets

\* spawnAlien payloads: aliens in the line of fire that drop the power-ups
\* which add two or three bullets per shot
PowerUpTargets ==
    { Alien(0, -1600, "cyan", 1, FALSE), Alien(0, -1600, "purple", 1, FALSE) }

BulletSpawnTarget ==
    /\ state.aliens = << >>
    /\ state.bullets = << >>
    /\ state.activePowerUps = << >>
    /\ SpawnAlien(PowerUpTargets, MaxBulletIds)

\* one shot at an alien in the line of fire, any number at an empty sky
BulletFire ==
    /\ state.aliens = << >> \/ state.bullets = << >>
    /\ Fire(MaxBulletIds)

NextBullets ==
    \/ BulletSpawnTarget
    \/ BulletFire
    \/ Tick(MaxTicks)

SpecBullets == Init /\ [][NextBullets]_vars

\* C13: in every state reachable through fire (single, double-bullet or
\* spread shot) and tick, the bullets list has at most 100 entries.
BulletsWithinLimit == Len(state.bullets) <= BULLET_LIMIT

-----------------------------------------------------------------------------
(* SpecAliens: aliens spawned at the top of the screen until the list is   *)
(* full; once one more would fill it, bosses arrive (spawnBoss, and        *)
(* spawnAlien with isBoss) and ticks pass.                                 *)

MaxAlienIds == 83   \* ids generated in one behaviour of SpecAliens

\* spawnAlien payloads: at the top of the screen, to the right of the cannon
FarAliens == { Alien(2000, 4000, "red", 1, FALSE) }
FarBoss == { Alien(-2000, 4000, "yellow", 1, TRUE) }

nearlyFull(s) == Len(s.aliens) >= ALIEN_LIMIT - 1

CapSpawnBossAlien == nearlyFull(state) /\ SpawnAlien(FarBoss, MaxAlienIds)

CapSpawnBoss == nearlyFull(state) /\ SpawnBoss(MaxAlienIds)

CapTick == nearlyFull(state) /\ Tick(MaxTicks)

NextAliens ==
    \/ SpawnAlien(FarAliens, MaxAlienIds)
    \/ CapSpawnBossAlien
    \/ CapSpawnBoss
    \/ CapTick

SpecAliens == Init /\ [][NextAliens]_vars

nonBossCount(s) == Len(s.aliens) - bossCount(s)

-----------------------------------------------------------------------------
(* SpecLevel: calculateLevelFromScore applied to the scores at, just below *)
(* and just above every required score: a match's score is raised from    *)
(* one of them to a higher one and its level recomputed as tick does.      *)

\* scores: 0, and each required score with its two neighbours
LevelScores ==
    {0} \cup UNION { { getRequiredScoreForLevel(L) - 1, getRequiredScoreForLevel(L),
                       getRequiredScoreForLevel(L) + 1 } : L \in 2..100 }

\* the level calculation of tick
levelCalculation(s) ==
    [s EXCEPT !.previousLevel = s.level, !.level = calculateLevelFromScore(s.score)]

MaxScoreJump == 6   \* scores of LevelScores a raise passes, but from score 0

\* the score is raised to a higher one (from the start of the match to any
\* score, later by up to MaxScoreJump scores), and the level recomputed
RaiseScore ==
    /\ \E n \in LevelScores :
          /\ n > state.score
          /\ \/ state.score = 0
             \/ Cardinality({m \in LevelScores : state.score < m /\ m <= n})
                    <= MaxScoreJump
          /\ state' = levelCalculation(incrementScore(state, n - state.score))
    /\ UNCHANGED <<now, idCounter, ticks, history, loop, modal>>

NextLevel == RaiseScore

SpecLevel == Init /\ [][NextLevel]_vars

\* C15: the level computed from a score is in 1..100, the level computed
\* from the score that level L requires is L, for every L in 1..100, and a
\* score that is not lower gives a level that is not lower.
LevelFromScoreExactAndMonotonic ==
    /\ [](/\ state.level \in 1..100
          /\ \A L \in 1..100 :
                state.score = getRequiredScoreForLevel(L) => state.level = L)
    /\ [][ state'.score >= state.score => state'.level >= state.level ]_vars

\* C15, the case reached: the score was raised to the one level 100
\* requires, and the level computed is 100.
LevelHundredAtItsScore ==
    /\ state.score = getRequiredScoreForLevel(100)
    /\ state.level = 100
    /\ state.previousLevel < 100

-----------------------------------------------------------------------------
(* SpecPenalty: a match whose score stands at the gate of level 10, 50 or  *)
(* 100 while aliens cross the lower boundary.                              *)

NextPenalty ==
    \/ VictoryScore
    \/ SpawnAlien(EscapingAliens, MaxId)
    \/ Tick(MaxTicks)
    \/ Reset

SpecPenalty == Init /\ [][NextPenalty]_vars

\* C16: level never decreases from one tick of a match to the next: a tick
\* leaves a level that is not below the level it found (the level the
\* previous tick left or, on the first tick after a reset, level 1).
LevelNeverDecreases ==
    [][ TickStep => state'.level >= state.level ]_vars

-----------------------------------------------------------------------------
(* The combo tiers, checked in SpecCombo, where a combo is built kill by   *)
(* kill from 0 to 100 and every tick applies getComboMultiplier to it.     *)

\* the five tiers as a table of ranges
comboTierTable ==
    [c \in 0..MaxComboIds |->
        CASE c \in 0..5   -> <<1, "">>
          [] c \in 6..15  -> <<2, "GREAT">>
          [] c \in 16..30 -> <<3, "AWESOME">>
          [] c \in 31..49 -> <<4, "INCREDIBLE">>
          [] OTHER        -> <<5, "PERFECT">>]

-----------------------------------------------------------------------------
(* SpecPowerUps: aliens that drop fireRate (red) and shield (green) are    *)
(* shot, one after the other while the clock advances, and an alien next   *)
(* to the cannon takes a life that a shield can give back.                 *)

MaxPowerIds == 4    \* ids generated in one behaviour of SpecPowerUps

NextPowerUps ==
    \/ SpawnAlien(TargetAliens \cup RammingAliens, MaxPowerIds)
    \/ Fire(MaxPowerIds)
    \/ Tick(MaxTicks)
    \/ AdvanceClock

SpecPowerUps == Init /\ [][NextPowerUps]_vars

activeTypes(list) == {list[i].type : i \in 1..Len(list)}

\* C18: activePowerUps never holds two entries of one type nor an entry of
\* type shield; and a tick whose one kill drops a power-up (no other alien
\* leaving the screen) keeps the unexpired entries and, for a shield, adds 1
\* to lives up to 3 and no entry; for a type already active, sets that
\* entry's expiry and adds no entry; for any other type, adds the entry.
PowerUpsOnePerTypeNoShield ==
    /\ [](/\ \A i, j \in 1..Len(state.activePowerUps) :
                state.activePowerUps[i].type = state.activePowerUps[j].type => i = j
          /\ "shield" \notin activeTypes(state.activePowerUps))
    /\ [][ LET f == tickCollide(state, now, escapeLog)
               kept == SelectSeq(state.activePowerUps, LAMBDA p : p.expiresAt > now)
               after == state'.activePowerUps
               expiresAt == now + getPowerUpDuration(state'.level)
           IN  ( /\ TickStep
                 /\ Len(f.destroyed) = 1
                 /\ state'.powerUpsCollected = state.powerUpsCollected + 1
                 /\ Len(state'.aliens) = Len(state.aliens) - 1 )
               => LET t == alienRewards[f.destroyed[1].type].powerUp
                  IN  IF t = "shield"
                      THEN /\ state'.lives = MinOf(3, state.lives + 1)
                           /\ after = kept
                      ELSE /\ state'.lives = state.lives
                           /\ IF t \in activeTypes(kept)
                              THEN /\ Len(after) = Len(kept)
                                   /\ \A i \in 1..Len(kept) :
                                         /\ after[i].type = kept[i].type
                                         /\ after[i].expiresAt =
                                               IF kept[i].type = t THEN expiresAt
                                               ELSE kept[i].expiresAt
                              ELSE after = Append(kept, [type |-> t,
                                                         expiresAt |-> expiresAt])
         ]_vars

\* C18, the case reached: two red aliens were shot in two ticks, the second
\* five seconds into the match; the one fireRate entry expires 8 seconds
\* after the second drop.
FireRateRefreshed ==
    /\ state.activePowerUps = << [type |-> "fireRate", expiresAt |-> 13000] >>
    /\ state.powerUpsCollected = 2
    /\ state.totalKills = 2
    /\ state.aliens = << >>
    /\ state.lives = 3

-----------------------------------------------------------------------------
(* The wave advance, checked in SpecVictory, where nextWave is dispatched  *)
(* up to MaxVictoryWaves times at level 1 and at the boss levels 10, 50    *)
(* and 100.                                                                *)

\* a step that dispatches nextWave: no other reducer adds to wavesCompleted
WaveStep == state'.wavesCompleted = state.wavesCompleted + 1

\* C19: wave is in 1..5 in every reachable state, and nextWave adds
\* 5000 * wave + 100 * level (the wave it finds) to score and 1 to
\* wavesCompleted, sets waveKills to 0, and sets wave to wave + 1 below
\* wave 5, to 1 at wave 5 of a level that is no boss level, and at wave 5
\* of a boss level sets status to boss.
NextWaveAsSpecified ==
    /\ [](state.wave \in 1..5)
    /\ [][ WaveStep =>
             /\ state'.score = state.score + 5000 * state.wave + 100 * state.level
             /\ state'.waveKills = 0
             /\ state.wave < 5
                   => state'.wave = state.wave + 1 /\ state'.status = state.status
             /\ (state.wave = 5 /\ state.level % 10 # 0)
                   => state'.wave = 1 /\ state'.status = state.status
             /\ (state.wave = 5 /\ state.level % 10 = 0)
                   => state'.wave = 5 /\ state'.status = "boss"
         ]_vars

\* C19, the case reached: the fifth wave of level 10 was cleared and the
\* status is boss.
BossStatusAfterFifthWave ==
    /\ state.wavesCompleted = 5
    /\ state.level = 10
    /\ state.wave = 5
    /\ state.waveKills = 0
    /\ state.status = "boss"

-----------------------------------------------------------------------------
(* SpecCollide: the cannon-alien collision.  Up to three aliens (a boss    *)
(* among them or not) are spawned next to the cannon, in the line of fire  *)
(* or just above the lower boundary, and shot, rammed into or let through  *)
(* while the clock advances.                                               *)

NextCollide ==
    \/ SpawnAlien(RedTarget \cup RammingAliens \cup EscapingAliens
                      \cup EscapingBoss, MaxMissIds)
    \/ Fire(MaxMissIds)
    \/ Tick(MaxTicks)
    \/ AdvanceClock

SpecCollide == Init /\ [][NextCollide]_vars

\* the aliens a tick's collision test finds (moved, the destroyed ones
\* removed) and those of them within squared distance 0.25 of the player
aliensAtCollision == removeDestroyed(tickCollide(state, now, escapeLog)).st.aliens

inReach ==
    {i \in 1..Len(aliensAtCollision) :
        LET dx == aliensAtCollision[i].x - state.playerX
            dy == aliensAtCollision[i].y - state.playerY
        IN  dx * dx + dy * dy < 250000}

-----------------------------------------------------------------------------
(* SpecMove: a player who moves the cannon freely, sideways and up and     *)
(* down, while aliens and a boss come down to the lower boundary.          *)

\* move payloads: dx and dy within and beyond the field, with a
\* sensitivity of 0.8, 0 or -0.8 (which turns the direction around); steps
\* of 0.8 from the start position (0, -2.5) reach the edges 3 and -3 only
\* by being clamped
MoveIntents ==
    [dx : {0, 1, 7}, dy : {0, 1, 7}, sensitivity : {-800, 0, 800}]

MoveBy(inputs) ==
    /\ \E m \in inputs : state' = move(state, m.dx, m.dy, m.sensitivity)
    /\ UNCHANGED <<now, idCounter, ticks, history, loop, modal>>

NextMove ==
    \/ MoveBy(MoveIntents)
    \/ SpawnAlien(EscapingAliens \cup EscapingBoss, MaxId)
    \/ Tick(MaxTicks)

SpecMove == Init /\ [][NextMove]_vars

\* C21: a tick in which a boss comes to lie below the lower boundary
\* (y < -3) leaves status gameOver and lives 0.
BossEscapeEndsGame ==
    [][ LET moved == tickCollide(state, now, escapeLog).st.aliens
        IN  ( /\ TickStep
              /\ \E i \in 1..Len(moved) : moved[i].isBoss /\ moved[i].y < -3000 )
            => (state'.status = "gameOver" /\ state'.lives = 0)
      ]_vars

\* the point of [-3, 3] nearest to v
nearestInField(v) == IF v > 3000 THEN 3000 ELSE IF v < -3000 THEN -3000 ELSE v

\* C25: playerX and playerY lie in [-3, 3] in every state reached through
\* move intents, and in each of them every intent moves the cannon to the
\* point of the field nearest to its target: an intent beyond an edge ends
\* on the edge.
PlayerStaysInField ==
    /\ state.playerX \in -3000..3000
    /\ state.playerY \in -3000..3000
    /\ \A m \in MoveIntents :
          LET after == move(state, m.dx, m.dy, m.sensitivity)
          IN  /\ after.playerX = nearestInField(state.playerX + m.dx * m.sensitivity)
              /\ after.playerY = nearestInField(state.playerY + m.dy * m.sensitivity)
              /\ [after EXCEPT !.playerX = state.playerX, !.playerY = state.playerY]
                    = state

\* C25, the case reached: the cannon in the upper right corner (3, 3), where
\* only a clamped move takes it.
CannonInUpperRightCorner ==
    /\ state.playerX = 3000
    /\ state.playerY = 3000

-----------------------------------------------------------------------------
(* SpecPause: a match that is started, paused and resumed with the P key   *)
(* (ProfilePage.tsx) while the clock advances; the game loop ticks only    *)
(* while status is playing or boss.  An alien in the line of fire is shot, *)
(* which leaves a combo and, when it drops one, a fireRate power-up.       *)

\* setGameStatus(to), dispatched by a handler that tests status === from
SetGameStatus(from, to) ==
    /\ state.status = from
    /\ state' = setGameStatus(state, to)
    /\ UNCHANGED <<now, idCounter, ticks, history, loop, modal>>

\* the tick of the game loop, whose effect returns unless status is playing
\* or boss
LoopTick ==
    /\ state.status \in {"playing", "boss"}
    /\ Tick(MaxTicks)

NextPause ==
    \/ SetGameStatus("idle", "playing")
    \/ SetGameStatus("playing", "paused")
    \/ SetGameStatus("paused", "playing")
    \/ SpawnAlien(RedTarget, MaxId)
    \/ Fire(MaxId)
    \/ LoopTick
    \/ AdvanceClock

SpecPause == Init /\ [][NextPause]_vars

typesOf(list) == [i \in 1..Len(list) |-> list[i].type]

\* C22: a step from playing to paused or from paused to playing changes
\* only status; and the first tick after time was spent paused leaves the
\* combo and the active power-up types that the same tick leaves when the
\* clock stands where it stood without the pause.
PauseLosesNoState ==
    [][ /\ ( \/ state.status = "playing" /\ state'.status = "paused"
             \/ state.status = "paused" /\ state'.status = "playing" )
           => state' = [state EXCEPT !.status = state'.status]
        /\ (TickStep /\ pausedMs > 0)
           => LET t == now - pausedMs
                  f == tickCollide(state, t, escapeLog)
              IN  \E draws \in [1..Len(f.destroyed) -> RandomDraws] :
                     LET unpaused == tickResolve(f, t, draws).st
                     IN  /\ state'.combo = unpaused.combo
                         /\ typesOf(state'.activePowerUps)
                               = typesOf(unpaused.activePowerUps)
      ]_vars

-----------------------------------------------------------------------------
(* SpecReset: reset dispatched at any time between shots, kills (with and  *)
(* without a power-up dropped), collisions with the cannon, escapes and    *)
(* advances of the clock.                                                  *)

NextReset ==
    \/ SpawnAlien(TargetAliens \cup RammingAliens \cup EscapingAliens, MaxId)
    \/ Fire(MaxId)
    \/ Tick(MaxTicks)
    \/ AdvanceClock
    \/ Reset

SpecReset == Init /\ [][NextReset]_vars

\* a step of SpecReset that dispatches reset: every other action draws an
\* id, counts a tick or advances the clock
ResetStep == idCounter' = idCounter /\ ticks' = ticks /\ now' = now

\* a state with its timestamps set aside
timestampsAside(s) == [s EXCEPT !.lastShotTime = 0, !.missWindowStart = 0]

\* C23: reset leaves every field at its initial value (the timestamps hold
\* the time of the reset), and reset applied to the state a reset left
\* gives that state again, timestamps aside.
ResetRestoresInitialState ==
    /\ [][ ResetStep =>
             /\ state'.score = 0 /\ state'.lives = 3 /\ state'.level = 1
             /\ state'.wave = 1 /\ state'.combo = 0
             /\ state'.bullets = << >> /\ state'.aliens = << >>
             /\ state'.activePowerUps = << >>
             /\ state'.status = "idle" /\ ~state'.bossActive
             /\ state'.victoryType = "null"
             /\ state'.shotsFired = 0 /\ state'.shotsHit = 0
             /\ state'.powerUpsCollected = 0 /\ state'.wavesCompleted = 0
             /\ state'.totalKills = 0 /\ state'.missedAliens = 0
             /\ timestampsAside(state') = timestampsAside(initialState)
             /\ state'.lastShotTime = now /\ state'.missWindowStart = now
         ]_vars
    /\ [](LET once == reset(state, now)
              twice == reset(once, now + ClockStepMs)
          IN  timestampsAside(twice) = timestampsAside(once))

\* C23, the case reached: a reset at t = 10000 of a match in which two
\* ids were drawn and two ticks ran.
ResetAfterPlay ==
    /\ timestampsAside(state) = timestampsAside(initialState)
    /\ state.lastShotTime = 10000
    /\ state.missWindowStart = 10000
    /\ idCounter = 2
    /\ ticks = 2

-----------------------------------------------------------------------------
(* tick outside a running match, checked in Spec, whose match starts with  *)
(* status idle.                                                            *)

\* C24: a tick dispatched while status is idle, gameOver or victory leaves
\* score, lives, combo, status, bullets and aliens as they are.
TickOutsideMatchChangesNothing ==
    [][ (TickStep /\ state.status \in {"idle", "gameOver", "victory"})
        => /\ state'.score = state.score
           /\ state'.lives = state.lives
           /\ state'.combo = state.combo
           /\ state'.status = state.status
           /\ state'.bullets = state.bullets
           /\ state'.aliens = state.aliens
      ]_vars

-----------------------------------------------------------------------------
(* SpecIdle: a player who shoots an alien (combo 1) and then lets the      *)
(* clock run, in steps of half the idle timeout, with or without another   *)
(* shot on its way to another alien.                                       *)

\* Date.now() moves on by stepMs, at most maxSteps times
ClockBy(stepMs, maxSteps) ==
    /\ now < maxSteps * stepMs
    /\ now' = now + stepMs
    /\ pausedMs' = IF state.status = "paused" THEN pausedMs + stepMs ELSE pausedMs
    /\ UNCHANGED <<state, idCounter, ticks, perfectAwards, escapeLog, loop, modal>>

NextIdle ==
    \/ SpawnAlien(RedTarget, MaxIdleIds)
    \/ Fire(MaxIdleIds)
    \/ Tick(MaxTicks)
    \/ ClockBy(IdleStepMs, MaxIdleSteps)

SpecIdle == Init /\ [][NextIdle]_vars

\* the tick finds a combo and the last shot at least 15 seconds old
idleAtTick == state.combo > 0 /\ now - state.lastShotTime >= IDLE_TIMEOUT

\* a step that dispatches fire
FireStep == state'.shotsFired > state.shotsFired

-----------------------------------------------------------------------------
(* SpecHits: aliens of 1 and 2 hit points and a boss of 2, spawned on top  *)
(* of and next to each other in the line of fire, and shot at with one or  *)
(* several bullets.                                                        *)

\* spawnAlien payloads: at x = 0.3 only the boss's radius reaches the line
\* of fire
HitTargets ==
    { Alien(0, -1600, "red", 1, FALSE), Alien(0, -1600, "red", 2, FALSE),
      Alien(300, -1600, "yellow", 2, TRUE) }

NextHits ==
    \/ SpawnAlien(HitTargets, MaxHitIds)
    \/ Fire(MaxHitIds)
    \/ Tick(MaxTicks)

SpecHits == Init /\ [][NextHits]_vars

\* the bullets and the aliens where the tick's movement takes them
bulletsMoved == updateBullets(state.bullets)

aliensMoved ==
    LET s1 == tickTimers(state, now)
    IN  updateAliens(state.aliens,
                     getAlienSpeed(s1.level, s1.wave, hasPowerUp(s1, "slowMotion")))

\* the first alien of the list within squared distance 0.0625 (0.16 for a
\* boss) of bullet bi, or 0
firstInRange(bi) ==
    LET b == bulletsMoved[bi]
        S == {ai \in 1..Len(aliensMoved) :
                LET a == aliensMoved[ai]
                    dx == a.x - b.x
                    dy == a.y - b.y
                IN  dx * dx + dy * dy < (IF a.isBoss THEN 160000 ELSE 62500)}
    IN  IF S = {} THEN 0 ELSE Min(S)

\* C27: in a tick each bullet hits the first alien of the list within
\* squared distance 0.0625 (0.16 for a boss) of it, and no other: shotsHit
\* grows by the number of bullets that hit, every alien loses one hit point
\* per bullet that hit it (and leaves the list at 0 or less), every bullet
\* that hit is gone from the bullets list after the tick, and every other
\* bullet is still there.
BulletHitsFirstAlienOnce ==
    [][ TickStep =>
          LET hitters == {bi \in 1..Len(bulletsMoved) : firstInRange(bi) # 0}
              hitsOn(ai) == Cardinality({bi \in hitters : firstInRange(bi) = ai})
          IN  /\ state'.shotsHit = state.shotsHit + Cardinality(hitters)
              /\ \A bi \in 1..Len(bulletsMoved) :
                    bi \in hitters <=> bulletsMoved[bi].id \notin idsOf(state'.bullets)
              /\ \A ai \in 1..Len(aliensMoved) :
                    LET left == aliensMoved[ai].hp - hitsOn(ai)
                    IN  /\ left <= 0 => aliensMoved[ai].id \notin idsOf(state'.aliens)
                        /\ \A k \in 1..Len(state'.aliens) :
                              state'.aliens[k].id = aliensMoved[ai].id
                                 => state'.aliens[k].hp = left
      ]_vars

\* C27, the case reached: one bullet was fired at an alien of 2 hit points
\* lying on top of another: the first has 1 hit point left, the second
\* both, and the bullet is gone.
FirstOfTwoAliensHitOnce ==
    /\ Len(state.aliens) = 2
    /\ state.aliens[1].hp = 1 /\ state.aliens[1].maxHp = 2
    /\ state.aliens[2].hp = 2 /\ ~state.aliens[2].isBoss
    /\ state.aliens[1].x = state.aliens[2].x
    /\ state.aliens[1].y = state.aliens[2].y
    /\ state.shotsFired = 1
    /\ state.shotsHit = 1
    /\ state.bullets = << >>

-----------------------------------------------------------------------------
(* SpecExpiry: aliens that drop fireRate (red), doubleBullets (purple) and *)
(* spreadShot (cyan) are shot while the clock advances in steps of 4       *)
(* seconds: a power-up lasts 8 seconds from its drop.                      *)

NextExpiry ==
    \/ SpawnAlien(RedTarget \cup PowerUpTargets, MaxIdleIds)
    \/ Fire(MaxIdleIds)
    \/ Tick(MaxTicks)
    \/ ClockBy(ExpiryStepMs, MaxExpirySteps)

SpecExpiry == Init /\ [][NextExpiry]_vars

\* C28: after every tick every entry of activePowerUps expires later than
\* the tick's time, and every entry that expired later than the tick's
\* time before the tick is still there (an entry of its type is).
PowerUpsExpireOnTime ==
    [][ TickStep =>
          /\ \A k \in 1..Len(state'.activePowerUps) :
                state'.activePowerUps[k].expiresAt > now
          /\ \A i \in 1..Len(state.activePowerUps) :
                state.activePowerUps[i].expiresAt > now
                   => state.activePowerUps[i].type \in activeTypes(state'.activePowerUps)
      ]_vars

\* C28, the case reached: the fireRate power-up of the only kill (at
\* t = 0, expiring at t = 8000) was removed by the tick at t = 8000.
ExpiredFireRateRemoved ==
    /\ state.activePowerUps = << >>
    /\ state.powerUpsCollected = 1
    /\ state.totalKills = 1
    /\ state.score = 100
    /\ state.lastShotTime = 0
    /\ ticks = 2
    /\ now = 8000

-----------------------------------------------------------------------------
(* SpecDecay: a match at level 1, 10, 50 or 100 in which an alien is shot  *)
(* (combo 1) and then the field stays empty for more than the 125 ticks    *)
(* that the combo countdown of 2000 ms lasts.                              *)

\* the game loop's tick on a field without aliens and bullets
QuietTick ==
    /\ state.aliens = << >>
    /\ state.bullets = << >>
    /\ Tick(MaxDecayTicks)

NextDecay ==
    \/ VictoryScore
    \/ SpawnAlien(RedTarget, MaxId)
    \/ Fire(MaxId)
    \/ Tick(MaxTicks)
    \/ QuietTick

SpecDecay == Init /\ [][NextDecay]_vars

\* the aliens a tick destroys
killsAtTick == Len(tickCollide(state, now, escapeLog).destroyed)

\* a step in which the player is not idle, no alien touches the cannon and
\* none escapes
SteadyStep ==
    /\ ~idleAtTick
    /\ inReach = {}
    /\ state'.missedAliens = state.missedAliens

\* C29: a tick that computes a level below 50 and in which the player is
\* not idle, no alien touches the cannon and none escapes leaves combo
\* raised by the number of its kills and, without a kill, comboTimer as it
\* was; a tick that computes a level of 50 or
\* more, finds combo > 0 and has no kill (and no idling, collision or
\* escape) takes 16 from comboTimer, or, when that leaves 0 or less, takes
\* 1 from combo and sets comboTimer to 2000; and a tick with a kill (and
\* no escape) leaves comboTimer 2000.
ComboDecaysFromLevelFifty ==
    [][ (TickStep /\ SteadyStep) =>
          /\ (state'.level < 50) =>
                /\ state'.combo = state.combo + killsAtTick
                /\ (killsAtTick = 0) => (state'.comboTimer = state.comboTimer)
          /\ (state'.level >= 50 /\ state.combo > 0 /\ killsAtTick = 0) =>
                IF state.comboTimer - 16 <= 0
                THEN state'.combo = state.combo - 1 /\ state'.comboTimer = 2000
                ELSE state'.combo = state.combo
                     /\ state'.comboTimer = state.comboTimer - 16
          /\ (killsAtTick > 0) => (state'.comboTimer = 2000)
      ]_vars

\* C29, the case reached: at level 50 the combo of the only kill was lost
\* to the decay step of the 125th tick after it.
ComboDecayedAfterCountdown ==
    /\ state.level = 50
    /\ state.combo = 0
    /\ state.maxCombo = 1
    /\ state.totalKills = 1
    /\ state.comboTimer = 2000
    /\ ticks = 126
    /\ state.lives = 3

-----------------------------------------------------------------------------
(* SpecEscape: a match whose score stands at the gate of level 50, 70 or   *)
(* 90, or at 0, while aliens cross the lower boundary, some are shot and   *)
(* a wave is cleared.                                                      *)

\* incrementScore payloads: the scores that levels 50, 70 and 90 require
EscapeScoreInputs ==
    { getRequiredScoreForLevel(50), getRequiredScoreForLevel(70),
      getRequiredScoreForLevel(90) }

EscapeScore ==
    /\ \E n \in EscapeScoreInputs :
          /\ state.score = 0
          /\ state' = incrementScore(state, n)
    /\ UNCHANGED <<now, idCounter, ticks, history, loop, modal>>

NextEscape ==
    \/ EscapeScore
    \/ SpawnAlien(EscapingAliens \cup RedTarget, MaxEscapeIds)
    \/ Fire(MaxEscapeIds)
    \/ Tick(MaxTicks)
    \/ NextWave
    \/ Reset

SpecEscape == Init /\ [][NextEscape]_vars

\* the penalty of one escape by level
missedPenaltyAt(level) ==
    IF level < 50 THEN 0
    ELSE IF level <= 69 THEN 100
    ELSE IF level <= 89 THEN 250
    ELSE 500

\* C30: score is a non-negative integer in every state, and a tick without
\* a kill leaves the score it found less the penalty of the level it
\* computes (0 below level 50, 100 at levels 50 to 69, 250 at levels 70 to
\* 89, 500 from level 90 on) for each alien that escaped in it, and 0 where
\* that would be negative; a tick with kills leaves no less than that.
EscapePenaltyByLevel ==
    /\ [](state.score \in Nat)
    /\ [][ TickStep =>
             LET escapes == state'.missedAliens - state.missedAliens
                 left == MaxOf(0, state.score - missedPenaltyAt(state'.level) * escapes)
             IN  IF killsAtTick = 0
                 THEN state'.score = left
                 ELSE state'.score > left
       ]_vars

\* C30, the case reached: two aliens escaped at level 70, one in each of
\* two ticks: the first cost 250 and, the level being 69 then, the second
\* 100.
TwoEscapesAcrossLevelSeventy ==
    /\ state.score = getRequiredScoreForLevel(70) - 350
    /\ state.missedAliens = 2
    /\ state.level = 69
    /\ state.lives = 1
    /\ ticks = 2

-----------------------------------------------------------------------------
(* SpecDrops: a match at level 1, 10, 50 or 100 in which a boss or an      *)
(* ordinary alien is shot, with a draw of Math.random() below and above    *)
(* the drop chance of the high levels.                                     *)

NextDrops ==
    \/ VictoryScore
    \/ SpawnAlien(RedTarget \cup BossTarget, MaxId)
    \/ Fire(MaxId)
    \/ Tick(MaxTicks)

SpecDrops == Init /\ [][NextDrops]_vars

\* the aliens a tick destroys
destroyedAtTick == tickCollide(state, now, escapeLog).destroyed

\* C31: a tick raises powerUpsCollected by 1 for every boss it destroys
\* and, when the level it computes is below 50, for every alien it
\* destroys; and by at most 1 for any alien it destroys.
SureDropsCollected ==
    [][ TickStep =>
          \E sure \in {Cardinality({k \in 1..Len(destroyedAtTick) :
                           destroyedAtTick[k].isBoss \/ state'.level < 50})} :
             /\ state'.powerUpsCollected - state.powerUpsCollected
                    \in sure..Len(destroyedAtTick)
      ]_vars

\* C31, the case reached: a boss was shot at level 100, where an ordinary
\* kill drops its power-up with chance 0.6, and its power-up is active.
BossDropAtLevelHundred ==
    /\ state.level = 100
    /\ state.totalKills = 1
    /\ state.powerUpsCollected = 1
    /\ state.victoryType = "ultimate"
    /\ activeTypes(state.activePowerUps) = {"scoreMultiplier"}

-----------------------------------------------------------------------------
(* SpecFlight: a match of up to 45 ticks, the time a bullet fired from the *)
(* start position takes to leave the field at the top, with aliens that    *)
(* are shot, that cross the lower boundary and that pass the bullet by.    *)

NextFlight ==
    \/ SpawnAlien(RedTarget \cup EscapingAliens \cup EscapingBoss, MaxId)
    \/ Fire(MaxId)
    \/ Tick(MaxFlightTicks)

SpecFlight == Init /\ [][NextFlight]_vars

\* C32: a tick leaves no alien with hp <= 0 or y < -3 in the aliens list
\* and no bullet with y >= 4.5 in the bullets list.
TickLeavesOnlyLiveObjects ==
    [][ TickStep =>
          /\ \A i \in 1..Len(state'.aliens) :
                state'.aliens[i].hp > 0 /\ state'.aliens[i].y >= -3000
          /\ \A i \in 1..Len(state'.bullets) : state'.bullets[i].y < 4500
      ]_vars

\* C32, the case reached: the only bullet, fired from the start position
\* before the first tick, left the field by the top at the 44th tick.
BulletLeftFieldAtTop ==
    /\ state.shotsFired = 1
    /\ state.shotsHit = 0
    /\ state.bullets = << >>
    /\ state.playerY = -2500
    /\ idCounter = 1
    /\ ticks = 44

-----------------------------------------------------------------------------
(* SpecOver: a match at level 1, 10, 50 or 100 that three escaping aliens  *)
(* end while a bullet is on its way to a boss two ticks above the cannon.  *)

\* spawnAlien payload: a boss that a bullet fired from the start reaches
\* with the second tick
DistantBoss == { Alien(0, -1000, "yellow", 1, TRUE) }

NextOver ==
    \/ VictoryScore
    \/ SpawnAlien(EscapingAliens \cup DistantBoss, MaxOverIds)
    \/ Fire(MaxOverIds)
    \/ Tick(MaxTicks)

SpecOver == Init /\ [][NextOver]_vars

\* C33: after every tick, lives = 0 implies status = gameOver.
NoLivesIsGameOver ==
    [][ TickStep => (state'.lives = 0 => state'.status = "gameOver") ]_vars

-----------------------------------------------------------------------------
(* Kills credited per alien, checked in SpecHits, where up to three        *)
(* bullets fly at one alien.                                               *)

\* the aliens a tick removes for hp <= 0
removedForHp == idsOf(state.aliens) \ idsOf(aliensAtCollision)

\* C34: a tick raises totalKills and waveKills by the number of distinct
\* aliens it removes for hp <= 0.
AlienCreditedOnce ==
    [][ TickStep =>
          /\ state'.totalKills = state.totalKills + Cardinality(removedForHp)
          /\ state'.waveKills = state.waveKills + Cardinality(removedForHp)
      ]_vars

-----------------------------------------------------------------------------
(* Hits and shots, checked in SpecBullets, where single, double and spread *)
(* shots are fired, some hit and the bullet cap drops the oldest bullets.  *)

\* C35: shotsHit is at most shotsFired in every state.
HitsWithinShots == state.shotsHit <= state.shotsFired

\* C35, the case reached: one shot hit, and of the 105 bullets fired since
\* then the bullet cap has dropped five that never hit.
HitAndDroppedBullets ==
    /\ state.shotsHit = 1
    /\ state.shotsFired = 106
    /\ Len(state.bullets) = BULLET_LIMIT
    /\ state.totalKills = 1

-----------------------------------------------------------------------------
(* The victory fields, checked in SpecOver, where a boss can be destroyed  *)
(* by the tick in which the last life is lost.                             *)

\* C36: in every state victoryType is non-null exactly if status is
\* victory.
VictoryTypeIffVictory ==
    (state.victoryType # "null") <=> (state.status = "victory")

-----------------------------------------------------------------------------
(* SpecBossFlight: a match of up to 45 ticks in which a bullet fired from  *)
(* the start position reaches the boss that spawnBoss has put at the top.  *)

NextBossFlight ==
    \/ SpawnBoss(MaxId)
    \/ Fire(MaxId)
    \/ Tick(MaxFlightTicks)

SpecBossFlight == Init /\ [][NextBossFlight]_vars

\* C37: after a tick that leaves bossActive true and one boss in the
\* aliens list, bossHP is the hp of that boss and bossMaxHP its maxHp.
BossHPTracksBoss ==
    [][ (TickStep /\ state'.bossActive /\ bossCount(state') = 1) =>
          \A i \in 1..Len(state'.aliens) :
             state'.aliens[i].isBoss =>
                /\ state'.bossHP = state'.aliens[i].hp
                /\ state'.bossMaxHP = state'.aliens[i].maxHp
      ]_vars

-----------------------------------------------------------------------------
(* SpecStale: the game loop of SpecLoop without the assumption that the    *)
(* page re-renders before the next frame.  The frame callback requests the *)
(* next frame itself (ProfilePage.tsx 534, 582); the effect's cleanup      *)
(* cancels it only when React runs the effect again, which React defers    *)
(* until after the render is committed: a frame may come first, with the   *)
(* values the effect captured.                                             *)

\* a frame of a loop whose captured values are older than the state; only
\* the frames that take the wave-complete branch are followed
StaleFrame ==
    /\ loop.captured # capturedOf(state)
    /\ loop.captured.waveKills >=
           enemiesRequired(loop.captured.level, loop.captured.wave)
    /\ state.wavesCompleted < MaxStaleWaves
    /\ gameLoop

NextStale ==
    \/ LoopFrame
    \/ StaleFrame
    \/ LoopRender

SpecStale == InitLoop /\ [][NextStale]_vars

-----------------------------------------------------------------------------
(* SpecSubmit: a match that ends in a game over, with the game-over modal  *)
(* mounted.                                                                *)

\* setAuth of the auth slice: the player signs in
SetAuth ==
    /\ ~modal.isAuthenticated
    /\ modal' = [modal EXCEPT !.isAuthenticated = TRUE]
    /\ UNCHANGED <<state, now, idCounter, ticks, history, loop>>

\* React commits a render of the modal and runs the effects whose
\* dependencies changed
ModalCommit ==
    /\ submitDeps(state, modal) # modal.deps
    /\ modal' = modalEffects(state, modal)
    /\ UNCHANGED <<state, now, idCounter, ticks, history, loop>>

\* a submission is answered: then and finally
SubmitResolved ==
    /\ modal.pending > 0
    /\ \E newHighScore \in BOOLEAN :
          modal' = [modal EXCEPT !.pending = @ - 1,
                                 !.submitted = TRUE,
                                 !.serverHighScore = newHighScore,
                                 !.submitting = FALSE]
    /\ UNCHANGED <<state, now, idCounter, ticks, history, loop>>

\* a submission fails: catch and finally
SubmitRejected ==
    /\ modal.pending > 0
    /\ modal' = [modal EXCEPT !.pending = @ - 1,
                              !.submitError = TRUE,
                              !.submitting = FALSE]
    /\ UNCHANGED <<state, now, idCounter, ticks, history, loop>>

\* handleRetry, offered while the modal shows: reset, setGameStatus
handleRetry ==
    /\ state.status = "gameOver"
    /\ state' = setGameStatus(reset(state, now), "playing")
    /\ perfectAwards' = 0
    /\ escapeLog' = << >>
    /\ pausedMs' = 0
    /\ modal' = [modal EXCEPT !.posts = 0]
    /\ UNCHANGED <<now, idCounter, ticks, loop>>

NextSubmit ==
    \/ SetAuth
    \/ SpawnAlien(EscapingAliens \cup RedTarget, MaxSubmitIds)
    \/ Fire(MaxSubmitIds)
    \/ Tick(MaxTicks)
    \/ ModalCommit
    \/ SubmitResolved
    \/ SubmitRejected
    \/ handleRetry

SpecSubmit == Init /\ [][NextSubmit]_vars

\* C39: for one game over the final score is submitted to the server at
\* most once, also when the submit effect runs again while the first
\* submission is pending.
ScoreSubmittedOnce == modal.posts <= 1

-----------------------------------------------------------------------------
(* The older difficulty module (part_014) computes the level with an       *)
(* upward loop over the same getRequiredScoreForLevel.                     *)

RECURSIVE levelWhileStrict(_, _)
levelWhileStrict(score, level) ==
    IF level < 100 /\ score > getRequiredScoreForLevel(level + 1)
    THEN levelWhileStrict(score, level + 1)
    ELSE level

\* the while loop that stops one comparison short: > for >=
calculateLevelFromScoreStrict(score) == levelWhileStrict(score, 1)

\* while (level < 100 && score >= getRequiredScoreForLevel(level + 1)) level++
RECURSIVE levelWhile(_, _)
levelWhile(score, level) ==
    IF level < 100 /\ score >= getRequiredScoreForLevel(level + 1)
    THEN levelWhile(score, level + 1)
    ELSE level

\* calculateLevelFromScore of the older difficulty module
calculateLevelFromScoreOlder(score) == levelWhile(score, 1)

\* C40: the downward-returning scan of difficultyV2 and the upward while
\* loop of the older difficulty module return the same level for every
\* score >= 0.
LevelImplementationsAgree ==
    /\ state.score >= 0
    /\ calculateLevelFromScoreOlder(state.score)
          = calculateLevelFromScore(state.score)

\* a score one below the score level 57 requires: both give 56
BothBelowLevelFiftySeven ==
    /\ state.score = getRequiredScoreForLevel(57) - 1
    /\ state.level = 56
    /\ calculateLevelFromScoreOlder(state.score) = 56
    /\ calculateLevelFromScore(state.score) = 56

====
